---- MODULE Spec2Model ----
(***************************************************************************)
(* Signal-generation pipeline of the alerting engine: the AlertManager     *)
(* (SignalEngine) with its validators, the TimeManager clock it stamps     *)
(* alerts with, and the kline feed handler that drives it.                 *)
(*                                                                         *)
(* Time is counted in whole minutes (one unit = 60_000 ms).  USDT volumes  *)
(* are integers.  A Python dict is a function whose DOMAIN is its key set. *)
(***************************************************************************)
EXTENDS Integers, Sequences, FiniteSets, TLC

VARIABLES
    now,                        \* local wall clock (datetime.now), minutes
    time_server_sync,           \* TimeServerSync: is_synced, time_offset_ms
    exchange_sync,              \* ExchangeTimeSync: is_exchange_synced, exchange_time_offset
    settings,                   \* AlertManager.settings
    validators,                 \* AlertValidators thresholds (own copies)
    alert_cooldowns,            \* AlertManager.alert_cooldowns
    consecutive_long_counters,  \* AlertManager.consecutive_long_counters
    preliminary_signals,        \* AlertManager.preliminary_signals
    alerts,                     \* the batch returned by the last process_kline_data
    call,                       \* the request the last process_kline_data served
    sent,                       \* alerts handed to _send_alert by the last call
    emitted,                    \* timestamp of the last alert emitted, per cooldown key
    trading_pairs,              \* BybitWebSocketManager.trading_pairs
    subscribed_pairs,           \* BybitWebSocketManager.subscribed_pairs
    subscription_pending,       \* BybitWebSocketManager.subscription_pending
    processed_candles,          \* BybitWebSocketManager.processed_candles
    tick,                       \* the last tick _handle_kline_data received
    kline_data,                 \* kline_data table: start_time of the closed rows, per symbol
    reconcile,                  \* outcome of the last data-window reconciliation run
    watchlist,                  \* watchlist table: is_active of each row, per symbol
    price_filter,               \* PriceFilter: watchlist_auto_update, price_drop_percentage
    cycle,                      \* outcome of the last PriceFilter.update_watchlist
    is_running,                 \* BybitWebSocketManager.is_running
    websocket_connected,        \* BybitWebSocketManager.websocket_connected
    streaming_active,           \* BybitWebSocketManager.streaming_active
    reconnect_attempts,         \* BybitWebSocketManager.reconnect_attempts
    loop,                       \* position of bybit_websocket_loop and the delay it sleeps
    monitoring,                 \* the _monitor_connection task (ping_task) is in its loop
    uptime,                     \* seconds since the connection opened
    last_message_time,          \* BybitWebSocketManager.last_message_time, seconds of uptime
    failures,                   \* connection failures in a row, counted by an observer
    alerts_table,               \* alerts table: the rows save_alert inserted
    delivery,                   \* the _send_alert call under observation: what failed, what was attempted
    kline_rows,                 \* kline_data table: the row stored under (symbol, start_time)
    tasks,                      \* asyncio tasks of the data-window reconciliation, by task id
    imbalance_analyzer,         \* ImbalanceAnalyzer: thresholds and enabled kinds
    analysis,                   \* the ImbalanceAnalyzer call under observation: window and results
    priority_emitted,           \* log of Priority emissions, kept while an observer is watching
    sync_task                   \* TimeManager: the _periodic_sync task, its two timers and the last_sync stamps of the two sources

engineVars == <<settings, validators, alert_cooldowns, consecutive_long_counters, preliminary_signals, emitted>>
ioVars == <<alerts, call, sent>>
sinkVars == <<alerts_table, delivery, priority_emitted>>
clockVars == <<now, time_server_sync, exchange_sync, sync_task>>
feedVars == <<trading_pairs, subscribed_pairs, subscription_pending, processed_candles, tick>>
storeVars == <<kline_data, reconcile>>
curatorVars == <<watchlist, price_filter, cycle>>
connectionVars == <<is_running, websocket_connected, streaming_active, reconnect_attempts, loop, monitoring, uptime, last_message_time, failures>>
rowVars == <<kline_rows>>
taskVars == <<tasks>>
imbalanceVars == <<imbalance_analyzer, analysis>>
serviceVars == <<storeVars, curatorVars, connectionVars, rowVars, taskVars, imbalanceVars>>
vars == <<now, time_server_sync, exchange_sync, settings, validators, alert_cooldowns, consecutive_long_counters, preliminary_signals, alerts, call, sent, emitted, trading_pairs, subscribed_pairs, subscription_pending, processed_candles, tick, kline_data, reconcile, watchlist, price_filter, cycle, is_running, websocket_connected, streaming_active, reconnect_attempts, loop, monitoring, uptime, last_message_time, failures, alerts_table, delivery, kline_rows, tasks, imbalance_analyzer, analysis, priority_emitted, sync_task>>

----------------------------------------------------------------------------
(* Bounds of the model *)

MaxTime == 3
MaxCount == 3

MaxSyncMinutes == 125

(* Program constants *)

MinBaselineSamples == 10
CleanupAgeMinutes == 60

Symbols == {"BTCUSDT"}

----------------------------------------------------------------------------
(* Python dicts *)

Get(d, k, default) == IF k \in DOMAIN d THEN d[k] ELSE default

Put(d, k, v) == [x \in (DOMAIN d) \cup {k} |-> IF x = k THEN v ELSE d[x]]

Del(d, k) == [x \in (DOMAIN d) \ {k} |-> d[x]]

EmptyDict == << >>

RECURSIVE Sum(_)
Sum(seq) == IF seq = << >> THEN 0 ELSE Head(seq) + Sum(Tail(seq))

Uniform(n, v) == [i \in 1..n |-> v]

(* The cooldown keys of one symbol: symbol for volume alerts,               *)
(* f"{symbol}_consecutive" for consecutive alerts.                          *)
VolumeKey(s) == s

ConsecutiveKey(s) == s \o "_consecutive"

(* Priority alerts have no cooldown key; this one names their entry in the  *)
(* log of Priority emissions.                                               *)
PriorityKey(s) == s \o "_priority"

----------------------------------------------------------------------------
(* Inputs *)

(* A kline tick.  numeric = FALSE: the close field does not parse as a      *)
(* number, so every float(kline_data['close']) raises.                      *)
Kline(confirm, close, volume, end, numeric) == [confirm |-> confirm, open |-> 100, close |-> close, volume |-> volume, start |-> end - 1, end |-> end, numeric |-> numeric]

ClosePrices == {99, 110}

Volumes == {1, 12}

(* An open tick belongs to the minute that ends after now; a closed tick    *)
(* arrives when its minute has just ended or one minute late.               *)
OpenKlines == {Kline(FALSE, c, v, now + 1, TRUE) : c \in ClosePrices, v \in Volumes} \cup {Kline(FALSE, 110, 12, now + 1, FALSE)}

ClosedKlines == {Kline(TRUE, c, v, e, TRUE) : c \in ClosePrices, v \in Volumes, e \in {now - 1, now}} \cup {Kline(TRUE, 110, 12, now, FALSE)}

Klines == OpenKlines \cup ClosedKlines

(* What get_historical_long_volumes returns: the USDT volumes of the stored *)
(* closed candles of the baseline window.                                   *)
Baselines == {Uniform(MinBaselineSamples - 1, 500), Uniform(MinBaselineSamples, 500), Uniform(MinBaselineSamples, 1000)}

ClockOffsets == {-1}

----------------------------------------------------------------------------
(* The request being served and its response: set by the step that serves *)
(* a request, empty after any other step.                                   *)
NoCall == [op |-> "none", symbol |-> "", kline |-> Kline(FALSE, 0, 0, 0, TRUE)]

NoRequest == alerts' = << >> /\ sent' = << >> /\ call' = NoCall /\ UNCHANGED sinkVars

----------------------------------------------------------------------------
(* TimeManager *)

get_accurate_utc_timestamp_ms == IF time_server_sync.is_synced THEN now + time_server_sync.time_offset_ms ELSE now

get_exchange_timestamp_ms == IF exchange_sync.is_exchange_synced THEN get_accurate_utc_timestamp_ms + exchange_sync.exchange_time_offset ELSE get_accurate_utc_timestamp_ms

(* sync_method is 'auto' (nothing calls set_sync_method). *)
get_utc_timestamp_ms ==
    IF ~exchange_sync.is_exchange_synced THEN get_accurate_utc_timestamp_ms
    ELSE IF time_server_sync.is_synced THEN get_accurate_utc_timestamp_ms
    ELSE get_exchange_timestamp_ms

is_candle_closed(k) == get_utc_timestamp_ms >= k.end

sync_with_time_servers(ok, offset) ==
    /\ time_server_sync' = IF ok THEN [is_synced |-> TRUE, time_offset_ms |-> offset] ELSE time_server_sync
    /\ NoRequest
    /\ sync_task' = IF ok /\ sync_task.tracked THEN [sync_task EXCEPT !.last_sync = now] ELSE sync_task
    /\ UNCHANGED <<now, exchange_sync, engineVars, feedVars, serviceVars>>

sync_exchange_time(ok, offset) ==
    /\ exchange_sync' = IF ok THEN [is_exchange_synced |-> TRUE, exchange_time_offset |-> offset] ELSE [exchange_sync EXCEPT !.is_exchange_synced = FALSE]
    /\ NoRequest
    /\ sync_task' = IF ok /\ sync_task.tracked THEN [sync_task EXCEPT !.last_exchange_sync = now] ELSE sync_task
    /\ UNCHANGED <<now, time_server_sync, engineVars, feedVars, serviceVars>>

(* TimeManager.is_time_synced *)
is_time_synced == time_server_sync.is_synced \/ exchange_sync.is_exchange_synced

(* TIME_SERVER_SYNC_INTERVAL (3600 s) and TIME_SYNC_INTERVAL (300 s), in    *)
(* minutes.                                                                 *)
time_server_sync_interval == 60

exchange_sync_interval == 5

(* Minutes since the start of the run (the clock starts at minute 2, so    *)
(* that every timestamp is positive, as an epoch timestamp is).            *)
Elapsed == now - 2

Advance ==
    /\ Elapsed < MaxTime
    /\ now' = now + 1
    /\ NoRequest
    /\ UNCHANGED <<time_server_sync, exchange_sync, sync_task, engineVars, feedVars, serviceVars>>

----------------------------------------------------------------------------
(* AlertValidators and AlertManager: the detectors *)

Alert(type, s, ts, true_signal, count) == [alert_type |-> type, symbol |-> s, timestamp |-> ts, is_true_signal |-> true_signal, consecutive_count |-> count]

is_long(k) == k.close > k.open

volume_usdt(k) == k.volume * k.close

(* volume_ratio = current / average if average > 0 else 0, compared with    *)
(* the multiplier; average = sum / len, so the comparison is cross-         *)
(* multiplied to stay in the integers.                                      *)
ratio_reaches(current, hist, multiplier) ==
    IF Sum(hist) > 0 THEN current * Len(hist) >= multiplier * Sum(hist) ELSE 0 >= multiplier

(* Timestamps are epoch milliseconds, never 0, so `if last_alert_timestamp` *)
(* is the presence of the key.  The validator reads the local clock.        *)
validate_volume_alert(k, hist, cooldowns, key) ==
    /\ k.numeric
    /\ is_long(k)
    /\ volume_usdt(k) >= validators.min_volume_usdt
    /\ ~(key \in DOMAIN cooldowns /\ now - cooldowns[key] < validators.alert_grouping_minutes)
    /\ Len(hist) >= MinBaselineSamples
    /\ ratio_reaches(volume_usdt(k), hist, validators.volume_multiplier)

check_volume_alert(s, k, hist, cooldowns) ==
    IF validate_volume_alert(k, hist, cooldowns, VolumeKey(s))
    THEN [alerts |-> <<Alert("volume_spike", s, get_utc_timestamp_ms, TRUE, 0)>>, cooldowns |-> Put(cooldowns, VolumeKey(s), get_utc_timestamp_ms)]
    ELSE [alerts |-> << >>, cooldowns |-> cooldowns]

check_preliminary_volume_signal(s, k, hist) ==
    IF /\ k.numeric
       /\ k.close > k.open
       /\ volume_usdt(k) >= settings.min_volume_usdt
       /\ Len(hist) >= MinBaselineSamples
       /\ ratio_reaches(volume_usdt(k), hist, settings.volume_multiplier)
    THEN <<Alert("preliminary_volume_spike", s, get_utc_timestamp_ms, FALSE, 0)>>
    ELSE << >>

(* Variants of the detectors with one plausible slip each; the properties  *)
(* below are re-checked against them.                                       *)
mut_final_only_when_long(s, k, prelims) ==
    IF s \in DOMAIN prelims /\ k.numeric /\ k.close > k.open
    THEN <<Alert("final_volume_spike", s, get_utc_timestamp_ms, TRUE, 0)>>
    ELSE << >>

mut_final_direction_of_preliminary(s, k, prelims) ==
    IF s \in DOMAIN prelims /\ k.numeric
    THEN <<Alert("final_volume_spike", s, get_utc_timestamp_ms, TRUE, 0)>>
    ELSE << >>

check_final_volume_signal(s, k, prelims) ==
    IF s \in DOMAIN prelims /\ k.numeric
    THEN <<Alert("final_volume_spike", s, get_utc_timestamp_ms, k.close > k.open, 0)>>
    ELSE << >>

mut_counter_never_reset(counters, s, k) ==
    IF ~k.numeric THEN counters
    ELSE IF is_long(k) THEN Put(counters, s, Get(counters, s, 0) + 1)
    ELSE counters

update_consecutive_long_counter(counters, s, k) ==
    IF ~k.numeric THEN counters
    ELSE IF is_long(k) THEN Put(counters, s, Get(counters, s, 0) + 1)
    ELSE Del(counters, s)

mut_consecutive_without_cooldown(s, k, counters, cooldowns) ==
    IF Get(counters, s, 0) >= settings.consecutive_long_count /\ k.numeric
    THEN [alerts |-> <<Alert("consecutive_long", s, get_utc_timestamp_ms, FALSE, Get(counters, s, 0))>>, cooldowns |-> Put(cooldowns, ConsecutiveKey(s), get_utc_timestamp_ms)]
    ELSE [alerts |-> << >>, cooldowns |-> cooldowns]

check_consecutive_long_alert(s, k, counters, cooldowns) ==
    IF /\ Get(counters, s, 0) >= settings.consecutive_long_count
       /\ ~(ConsecutiveKey(s) \in DOMAIN cooldowns /\ get_utc_timestamp_ms - cooldowns[ConsecutiveKey(s)] < settings.alert_grouping_minutes)
       /\ k.numeric
    THEN [alerts |-> <<Alert("consecutive_long", s, get_utc_timestamp_ms, FALSE, Get(counters, s, 0))>>, cooldowns |-> Put(cooldowns, ConsecutiveKey(s), get_utc_timestamp_ms)]
    ELSE [alerts |-> << >>, cooldowns |-> cooldowns]

check_recent_volume_alert_in_range(s, candles_back, cooldowns, prelims) ==
    \/ VolumeKey(s) \in DOMAIN cooldowns /\ get_utc_timestamp_ms - cooldowns[VolumeKey(s)] <= candles_back
    \/ s \in DOMAIN prelims /\ get_utc_timestamp_ms - prelims[s].timestamp <= candles_back

mut_priority_needs_prior_volume_alert(volume_alert, consecutive_alert, recent_volume_alert) ==
    /\ consecutive_alert # << >>
    /\ volume_alert = << >>
    /\ recent_volume_alert

validate_priority_alert(volume_alert, consecutive_alert, recent_volume_alert) ==
    /\ consecutive_alert # << >>
    /\ (volume_alert # << >> \/ recent_volume_alert)

check_priority_signal(s, current_alerts, cooldowns, prelims) ==
    LET volume_alert == SelectSeq(current_alerts, LAMBDA a : a.alert_type \in {"volume_spike", "final_volume_spike"})
        consecutive_alert == SelectSeq(current_alerts, LAMBDA a : a.alert_type = "consecutive_long")
        recent_volume_alert == IF consecutive_alert # << >> THEN check_recent_volume_alert_in_range(s, consecutive_alert[Len(consecutive_alert)].consecutive_count, cooldowns, prelims) ELSE FALSE
    IN  IF validate_priority_alert(volume_alert, consecutive_alert, recent_volume_alert)
        THEN <<Alert("priority", s, get_utc_timestamp_ms, FALSE, consecutive_alert[Len(consecutive_alert)].consecutive_count)>>
        ELSE << >>

(* One closed candle: counter, final signal, volume, consecutive, priority. *)
process_closed_candle(s, k, hist) ==
    LET counters == update_consecutive_long_counter(consecutive_long_counters, s, k)
        final == IF s \in DOMAIN preliminary_signals THEN check_final_volume_signal(s, k, preliminary_signals) ELSE << >>
        prelims == Del(preliminary_signals, s)
        volume == IF settings.volume_alerts_enabled THEN check_volume_alert(s, k, hist, alert_cooldowns) ELSE [alerts |-> << >>, cooldowns |-> alert_cooldowns]
        consecutive == IF settings.consecutive_alerts_enabled THEN check_consecutive_long_alert(s, k, counters, volume.cooldowns) ELSE [alerts |-> << >>, cooldowns |-> volume.cooldowns]
        batch == final \o volume.alerts \o consecutive.alerts
        priority == IF settings.priority_alerts_enabled THEN check_priority_signal(s, batch, consecutive.cooldowns, prelims) ELSE << >>
    IN  [alerts |-> batch \o priority, sent |-> batch \o priority, counters |-> counters, cooldowns |-> consecutive.cooldowns, prelims |-> prelims]

(* The entry point.  An open candle (confirm = false) returns before the    *)
(* send loop; a confirmed candle is processed when the TimeManager clock    *)
(* has reached its end.                                                     *)
process_kline_data(s, k, hist) ==
    IF ~k.confirm
    THEN LET preliminary_alert == check_preliminary_volume_signal(s, k, hist)
         IN  [alerts |-> preliminary_alert, sent |-> << >>, counters |-> consecutive_long_counters, cooldowns |-> alert_cooldowns,
              prelims |-> IF preliminary_alert # << >> THEN Put(preliminary_signals, s, preliminary_alert[1]) ELSE preliminary_signals]
    ELSE IF is_candle_closed(k)
    THEN process_closed_candle(s, k, hist)
    ELSE [alerts |-> << >>, sent |-> << >>, counters |-> consecutive_long_counters, cooldowns |-> alert_cooldowns, prelims |-> preliminary_signals]

(* The last emission of each cooldown-gated kind, kept across the calls.    *)
record_emitted(log, batch) ==
    LET stamped == {VolumeKey(batch[i].symbol) : i \in {j \in DOMAIN batch : batch[j].alert_type = "volume_spike"}}
                       \cup {ConsecutiveKey(batch[i].symbol) : i \in {j \in DOMAIN batch : batch[j].alert_type = "consecutive_long"}}
    IN  [key \in (DOMAIN log) \cup stamped |-> IF key \in stamped THEN get_utc_timestamp_ms ELSE log[key]]

(* The last Priority emission of each symbol. *)
record_priority(log, batch) ==
    LET stamped == {PriorityKey(batch[i].symbol) : i \in {j \in DOMAIN batch : batch[j].alert_type = "priority"}}
    IN  [key \in (DOMAIN log) \cup stamped |-> IF key \in stamped THEN get_utc_timestamp_ms ELSE log[key]]

(* DatabaseQueries.save_alert: one row per alert. *)
save_alert(rows, alert_data) == rows \cup {alert_data}

(* _send_alert: the alert is broadcast to the clients and sent to Telegram; *)
(* its save_alert call is commented out, the table is left as it is.        *)
send_alert(rows, alert_data) == rows

RECURSIVE send_alerts(_, _)
send_alerts(rows, batch) ==
    IF batch = << >> THEN rows ELSE send_alerts(send_alert(rows, Head(batch)), Tail(batch))

(* The effect of one process_kline_data call on the AlertManager. *)
Serve(s, k, hist) ==
    LET r == process_kline_data(s, k, hist)
    IN  /\ alerts' = r.alerts
        /\ sent' = r.sent
        /\ alerts_table' = send_alerts(alerts_table, r.sent)
        /\ UNCHANGED delivery
        /\ priority_emitted' = IF priority_emitted.watching
                                THEN [priority_emitted EXCEPT !.at = record_priority(@, r.alerts)]
                                ELSE priority_emitted
        /\ consecutive_long_counters' = r.counters
        /\ alert_cooldowns' = r.cooldowns
        /\ preliminary_signals' = r.prelims
        /\ emitted' = record_emitted(emitted, r.alerts)
        /\ call' = [op |-> "process_kline_data", symbol |-> s, kline |-> k]
        /\ UNCHANGED <<settings, validators>>


(* A caller of the AlertManager hands it one candle. *)
OnCandle(s, k, hist) ==
    /\ Get(process_kline_data(s, k, hist).counters, s, 0) <= MaxCount
    /\ Serve(s, k, hist)
    /\ UNCHANGED <<clockVars, feedVars, serviceVars>>

----------------------------------------------------------------------------
(* BybitWebSocketManager: the kline feed *)

(* _process_closed_candle of the feed: a confirmed tick newer than the     *)
(* last processed one goes to the AlertManager and is marked processed.     *)
mut_feed_fresh_allows_equal(s, k) ==
    k.start >= Get(processed_candles, s, 0)

feed_is_fresh(s, k) == k.start > Get(processed_candles, s, 0)

handle_kline_data(s, k, hist) ==
    IF s \notin trading_pairs
    THEN /\ tick' = [symbol |-> s, kline |-> k, accepted |-> FALSE, fresh |-> FALSE, delivered |-> FALSE]
         /\ NoRequest
         /\ UNCHANGED <<trading_pairs, subscribed_pairs, subscription_pending, processed_candles, engineVars, clockVars, serviceVars>>
    ELSE /\ subscription_pending' = subscription_pending \ {s}
         /\ subscribed_pairs' = subscribed_pairs \cup {s}
         /\ tick' = [symbol |-> s, kline |-> k, accepted |-> TRUE, fresh |-> feed_is_fresh(s, k), delivered |-> k.confirm /\ feed_is_fresh(s, k)]
         /\ IF k.confirm /\ feed_is_fresh(s, k)
            THEN /\ Get(process_kline_data(s, k, hist).counters, s, 0) <= MaxCount
                 /\ Serve(s, k, hist)
                 /\ processed_candles' = Put(processed_candles, s, k.start)
            ELSE /\ NoRequest
                 /\ UNCHANGED <<processed_candles, engineVars>>
         /\ UNCHANGED <<trading_pairs, clockVars, serviceVars>>

update_trading_pairs(new_pairs, removed_pairs) ==
    /\ trading_pairs' = (trading_pairs \cup new_pairs) \ removed_pairs
    /\ NoRequest
    /\ UNCHANGED <<subscribed_pairs, subscription_pending, processed_candles, tick, engineVars, clockVars, serviceVars>>

----------------------------------------------------------------------------
(* Settings updates and the hourly cleanup *)

(* One entry of new_settings: a key and its value.  parses = FALSE: the     *)
(* value is not a number (float(value) raises); flag is the value of a      *)
(* boolean option.                                                          *)
Setting(key, parses, num, flag) == [key |-> key, parses |-> parses, num |-> num, flag |-> flag]

Max(a, b) == IF a >= b THEN a ELSE b

safe_convert(u, default) == IF u.parses THEN u.num ELSE default

manager_settings(u) ==
    CASE u.key = "VOLUME_ALERTS_ENABLED" -> [settings EXCEPT !.volume_alerts_enabled = u.flag]
      [] u.key = "CONSECUTIVE_ALERTS_ENABLED" -> [settings EXCEPT !.consecutive_alerts_enabled = u.flag]
      [] u.key = "PRIORITY_ALERTS_ENABLED" -> [settings EXCEPT !.priority_alerts_enabled = u.flag]
      [] u.key = "ANALYSIS_HOURS" -> [settings EXCEPT !.analysis_hours = IF u.parses THEN Max(1, u.num) ELSE 1]
      [] u.key = "OFFSET_MINUTES" -> [settings EXCEPT !.offset_minutes = IF u.parses THEN Max(0, u.num) ELSE 0]
      [] u.key = "VOLUME_MULTIPLIER" -> [settings EXCEPT !.volume_multiplier = safe_convert(u, 2)]
      [] u.key = "MIN_VOLUME_USDT" -> [settings EXCEPT !.min_volume_usdt = safe_convert(u, 1000)]
      [] u.key = "CONSECUTIVE_LONG_COUNT" -> [settings EXCEPT !.consecutive_long_count = safe_convert(u, 5)]
      [] u.key = "ALERT_GROUPING_MINUTES" -> [settings EXCEPT !.alert_grouping_minutes = safe_convert(u, 5)]
      [] OTHER -> settings

validators_update_settings(u) ==
    CASE u.key = "MIN_VOLUME_USDT" /\ u.parses -> [validators EXCEPT !.min_volume_usdt = u.num]
      [] u.key = "VOLUME_MULTIPLIER" /\ u.parses -> [validators EXCEPT !.volume_multiplier = u.num]
      [] u.key = "CONSECUTIVE_LONG_COUNT" /\ u.parses -> [validators EXCEPT !.consecutive_long_count = u.num]
      [] u.key = "ALERT_GROUPING_MINUTES" /\ u.parses -> [validators EXCEPT !.alert_grouping_minutes = u.num]
      [] OTHER -> validators

clears_caches(u) == u.key \in {"ANALYSIS_HOURS", "OFFSET_MINUTES"}

update_settings(u) ==
    /\ settings' = manager_settings(u)
    /\ validators' = validators_update_settings(u)
    /\ alert_cooldowns' = IF clears_caches(u) THEN EmptyDict ELSE alert_cooldowns
    /\ consecutive_long_counters' = IF clears_caches(u) THEN EmptyDict ELSE consecutive_long_counters
    /\ preliminary_signals' = IF clears_caches(u) THEN EmptyDict ELSE preliminary_signals
    /\ NoRequest
    /\ UNCHANGED <<emitted, clockVars, feedVars, serviceVars>>

stale_cooldown(key) == alert_cooldowns[key] < get_utc_timestamp_ms - CleanupAgeMinutes

cleanup_old_data ==
    /\ alert_cooldowns' = [key \in {x \in DOMAIN alert_cooldowns : ~stale_cooldown(x)} |-> alert_cooldowns[key]]
    /\ NoRequest
    /\ UNCHANGED <<settings, validators, consecutive_long_counters, preliminary_signals, emitted, clockVars, feedVars, serviceVars>>

(* TimeManager.start: the first synchronisation with the time servers and   *)
(* with the exchange, then the periodic task is created; its two timers     *)
(* start at the time of creation.                                           *)
time_manager_start(servers_ok, exchange_ok, offset) ==
    /\ ~sync_task.is_running
    /\ time_server_sync' = IF servers_ok THEN [is_synced |-> TRUE, time_offset_ms |-> offset] ELSE time_server_sync
    /\ exchange_sync' = IF exchange_ok THEN [is_exchange_synced |-> TRUE, exchange_time_offset |-> offset]
                        ELSE [exchange_sync EXCEPT !.is_exchange_synced = FALSE]
    /\ sync_task' = [tracked |-> TRUE, is_running |-> TRUE,
                     last_sync |-> IF servers_ok THEN now ELSE sync_task.last_sync,
                     last_exchange_sync |-> IF exchange_ok THEN now ELSE sync_task.last_exchange_sync,
                     loop_last_time_server_sync |-> now, loop_last_exchange_sync |-> now]
    /\ NoRequest
    /\ UNCHANGED <<now, engineVars, feedVars, serviceVars>>

(* One turn of TimeManager._periodic_sync: a source is asked again when its *)
(* timer has run for more than its interval, the timer restarts whether or  *)
(* not the source answered, then the task sleeps for a minute.              *)
periodic_sync(servers_ok, exchange_ok, offset) ==
    LET servers_due == now - sync_task.loop_last_time_server_sync > time_server_sync_interval
        exchange_due == now - sync_task.loop_last_exchange_sync > exchange_sync_interval
    IN  /\ sync_task.is_running
        /\ Elapsed < MaxSyncMinutes
        /\ time_server_sync' = IF servers_due /\ servers_ok THEN [is_synced |-> TRUE, time_offset_ms |-> offset] ELSE time_server_sync
        /\ exchange_sync' = IF ~exchange_due THEN exchange_sync
                            ELSE IF exchange_ok THEN [is_exchange_synced |-> TRUE, exchange_time_offset |-> offset]
                            ELSE [exchange_sync EXCEPT !.is_exchange_synced = FALSE]
        /\ sync_task' = [sync_task EXCEPT !.last_sync = IF servers_due /\ servers_ok THEN now ELSE @,
                                          !.last_exchange_sync = IF exchange_due /\ exchange_ok THEN now ELSE @,
                                          !.loop_last_time_server_sync = IF servers_due THEN now ELSE @,
                                          !.loop_last_exchange_sync = IF exchange_due THEN now ELSE @]
        /\ now' = now + 1
        /\ NoRequest
        /\ UNCHANGED <<engineVars, feedVars, serviceVars>>

(* More than an hour passes with no candle. *)
IdleHour ==
    /\ Elapsed <= MaxTime
    /\ now' = now + CleanupAgeMinutes + 1
    /\ NoRequest
    /\ UNCHANGED <<time_server_sync, exchange_sync, sync_task, engineVars, feedVars, serviceVars>>

----------------------------------------------------------------------------
(* Initial state: the objects as constructed, thresholds from the          *)
(* configuration file.                                                      *)

NoReconcile == [op |-> "none", symbol |-> "", required_start |-> 0, required_end |-> 0, actions |-> {}]

ConfigCount == 2
ConfigGrouping == 2

NoTick == [symbol |-> "", kline |-> Kline(FALSE, 0, 0, 0, TRUE), accepted |-> FALSE, fresh |-> FALSE, delivered |-> FALSE]

(* ImbalanceAnalyzer.__init__: thresholds in tenths of a percent. *)
AnalyzerConstructed == [min_gap_percentage |-> 1, min_strength |-> 5, fair_value_gap_enabled |-> TRUE,
                        order_block_enabled |-> TRUE, breaker_block_enabled |-> TRUE]

NoAnalysis == [candles |-> << >>, fair_value_gap |-> << >>, order_block |-> << >>, breaker_block |-> << >>, all_imbalances |-> << >>]

NoPriorityLog == [watching |-> FALSE, at |-> EmptyDict]

(* TimeManager.__init__: no task, no stamp (0 stands for None).  The stamps *)
(* are read by nothing but the status reports, so they are tracked only     *)
(* where the run is about the state of synchronisation.                     *)
NoSyncTask == [tracked |-> FALSE, is_running |-> FALSE, last_sync |-> 0, last_exchange_sync |-> 0,
               loop_last_time_server_sync |-> 0, loop_last_exchange_sync |-> 0]

Constructed ==
    /\ time_server_sync = [is_synced |-> FALSE, time_offset_ms |-> 0]
    /\ exchange_sync = [is_exchange_synced |-> FALSE, exchange_time_offset |-> 0]
    /\ settings \in [volume_alerts_enabled : {TRUE}, consecutive_alerts_enabled : {TRUE}, priority_alerts_enabled : {TRUE},
                      analysis_hours : {1}, offset_minutes : {0}, volume_multiplier : {2}, min_volume_usdt : {1000},
                      consecutive_long_count : {ConfigCount}, alert_grouping_minutes : {ConfigGrouping}]
    /\ validators = [min_volume_usdt |-> settings.min_volume_usdt, volume_multiplier |-> settings.volume_multiplier,
                     consecutive_long_count |-> settings.consecutive_long_count, alert_grouping_minutes |-> settings.alert_grouping_minutes]
    /\ alert_cooldowns = EmptyDict
    /\ consecutive_long_counters = EmptyDict
    /\ preliminary_signals = EmptyDict
    /\ alerts = << >>
    /\ sent = << >>
    /\ call = NoCall
    /\ emitted = EmptyDict
    /\ trading_pairs = {}
    /\ subscribed_pairs = {}
    /\ subscription_pending = {}
    /\ processed_candles = EmptyDict
    /\ tick = NoTick
    /\ alerts_table = {}
    /\ delivery = [alert |-> << >>, wired |-> {}, clients |-> FALSE, failing |-> {}, attempted |-> {}]
    /\ imbalance_analyzer = AnalyzerConstructed
    /\ analysis = NoAnalysis

(* The PriceFilter and the feed's connection after construction: an empty   *)
(* watchlist table, no connection, the reconnect loop not yet at work.      *)
NoCycle == [op |-> "none", current_watchlist |-> {}, new_watchlist |-> {}, added |-> {}, removed |-> {}, callback |-> FALSE, new_pairs |-> {}, removed_pairs |-> {}, subscribe |-> {}, unsubscribe |-> {}]

price_drop_percentage == 10

CuratorConstructed ==
    /\ watchlist = EmptyDict
    /\ price_filter = [watchlist_auto_update |-> TRUE, price_drop_percentage |-> price_drop_percentage]
    /\ cycle = NoCycle

ConnectionConstructed ==
    /\ is_running = FALSE
    /\ websocket_connected = FALSE
    /\ streaming_active = FALSE
    /\ reconnect_attempts = 0
    /\ loop = [at |-> "idle", delay |-> 0]
    /\ monitoring = FALSE
    /\ uptime = 0
    /\ last_message_time = 0
    /\ failures = 0

Init ==
    /\ now = 2
    /\ Constructed
    /\ priority_emitted = NoPriorityLog
    /\ sync_task = NoSyncTask
    /\ kline_rows = [s \in Symbols |-> EmptyDict]
    /\ tasks = EmptyDict
    /\ kline_data = [s \in Symbols |-> {}]
    /\ reconcile = NoReconcile
    /\ CuratorConstructed
    /\ ConnectionConstructed

Next ==
    \/ \E s \in Symbols, k \in Klines, hist \in Baselines : OnCandle(s, k, hist)
    \/ \E ok \in BOOLEAN, offset \in ClockOffsets : sync_with_time_servers(ok, offset)
    \/ Advance

Spec == Init /\ [][Next]_vars

(* The AlertManager under settings updates and cleanup runs. *)

SettingsBaseline == Uniform(MinBaselineSamples, 500)

SettingsKlines == {Kline(FALSE, 110, 12, now + 1, TRUE), Kline(TRUE, 110, 12, now, TRUE), Kline(TRUE, 110, 1, now, TRUE)}

SettingsUpdates ==
    {Setting("VOLUME_ALERTS_ENABLED", TRUE, 0, b) : b \in BOOLEAN}
    \cup {Setting("ANALYSIS_HOURS", TRUE, h, FALSE) : h \in {1, 2}}
    \cup {Setting("ALERT_GROUPING_MINUTES", TRUE, 1, FALSE), Setting("ALERT_GROUPING_MINUTES", FALSE, 0, FALSE)}

NextSettings ==
    \/ \E s \in Symbols, k \in SettingsKlines : OnCandle(s, k, SettingsBaseline)
    \/ \E u \in SettingsUpdates : update_settings(u)
    \/ cleanup_old_data
    \/ \E ok \in BOOLEAN, offset \in ClockOffsets : sync_with_time_servers(ok, offset)
    \/ Advance
    \/ IdleHour

SpecSettings == Init /\ [][NextSettings]_vars

(* Updates of the two volume thresholds: a value that parses and one that   *)
(* does not.                                                                *)
ThresholdUpdates ==
    {Setting("VOLUME_MULTIPLIER", TRUE, 3, FALSE), Setting("VOLUME_MULTIPLIER", FALSE, 0, FALSE),
     Setting("MIN_VOLUME_USDT", TRUE, 1200, FALSE), Setting("MIN_VOLUME_USDT", FALSE, 0, FALSE)}

NextThresholds ==
    \/ \E s \in Symbols, k \in SettingsKlines : OnCandle(s, k, SettingsBaseline)
    \/ \E u \in ThresholdUpdates : update_settings(u)
    \/ Advance

SpecThresholds == Init /\ [][NextThresholds]_vars

(* The AlertManager under candles and settings updates that carry           *)
(* ANALYSIS_HOURS, with the Priority emissions logged.                      *)
InitPriority ==
    /\ now = 2
    /\ Constructed
    /\ priority_emitted = [watching |-> TRUE, at |-> EmptyDict]
    /\ sync_task = NoSyncTask
    /\ kline_rows = [s \in Symbols |-> EmptyDict]
    /\ tasks = EmptyDict
    /\ kline_data = [s \in Symbols |-> {}]
    /\ reconcile = NoReconcile
    /\ CuratorConstructed
    /\ ConnectionConstructed

NextPriority ==
    \/ \E s \in Symbols, k \in SettingsKlines : OnCandle(s, k, SettingsBaseline)
    \/ \E u \in {x \in SettingsUpdates : x.key = "ANALYSIS_HOURS"} : update_settings(u)
    \/ cleanup_old_data
    \/ Advance
    \/ IdleHour

SpecPriority == InitPriority /\ [][NextPriority]_vars

(* The feed driving the AlertManager, as the application wires them. *)

NextFeed ==
    \/ \E s \in Symbols, k \in Klines, hist \in Baselines : handle_kline_data(s, k, hist)
    \/ \E new_pairs \in SUBSET Symbols, removed_pairs \in SUBSET Symbols : update_trading_pairs(new_pairs, removed_pairs)
    \/ \E ok \in BOOLEAN, offset \in ClockOffsets : sync_with_time_servers(ok, offset)
    \/ \E ok \in BOOLEAN, offset \in ClockOffsets : sync_exchange_time(ok, offset)
    \/ Advance

SpecFeed == Init /\ [][NextFeed]_vars

----------------------------------------------------------------------------
(* The candle store and the reconciliation of its data window.  Store times *)
(* are counted in ticks, TicksPerMinute to the minute, so that a clock      *)
(* reading need not fall on a minute boundary; stored candles start on one. *)

TicksPerMinute == 2

MinutesPerHour == 60

IntegrityPercent == 95

StoreStartMinute == 200

MinuteStart(m) == m * TicksPerMinute

(* int(datetime.now(timezone.utc).timestamp() * 1000), frac past the minute *)
current_time_ms(frac) == now * TicksPerMinute + frac

AlignDownToMinute(t) == (t \div TicksPerMinute) * TicksPerMinute

Fractions == 0..(TicksPerMinute - 1)

Least(S) == CHOOSE x \in S : \A y \in S : x <= y

Greatest(S) == CHOOSE x \in S : \A y \in S : x >= y

(* MIN, MAX and COUNT over the closed rows; NULL is read as 0, which the    *)
(* callers' truth tests treat alike.                                        *)
get_data_time_range(rows) ==
    IF rows = {}
    THEN [earliest_time |-> 0, latest_time |-> 0, total_count |-> 0]
    ELSE [earliest_time |-> Least(rows), latest_time |-> Greatest(rows), total_count |-> Cardinality(rows)]

check_data_integrity_range(rows, start_time_ms, end_time_ms) ==
    LET existing_count == Cardinality({c \in rows : c >= start_time_ms /\ c < end_time_ms})
        expected_count == Max(1, (end_time_ms - start_time_ms) \div TicksPerMinute)
    IN  [total_existing |-> existing_count,
         total_expected |-> expected_count,
         below_threshold |-> existing_count * 100 < IntegrityPercent * expected_count,
         missing_count |-> Max(0, expected_count - existing_count)]

cleanup_old_candles_before_time(rows, cutoff_time_ms) == {c \in rows : ~(c < cutoff_time_ms)}

cleanup_future_candles_after_time(rows, cutoff_time_ms) == {c \in rows : ~(c >= cutoff_time_ms)}

(* DatabaseQueries.adjust_data_for_new_settings: the rows left and the      *)
(* actions reported.                                                        *)
adjust_data_for_new_settings(rows, analysis_hours, offset_minutes, frac) ==
    LET end_time_ms == current_time_ms(frac) - Max(0, offset_minutes) * TicksPerMinute
        start_time_ms == end_time_ms - Max(1, analysis_hours) * MinutesPerHour * TicksPerMinute
        current_range == get_data_time_range(rows)
        delete_old == current_range.earliest_time # 0 /\ current_range.earliest_time < start_time_ms
        after_old == IF delete_old THEN cleanup_old_candles_before_time(rows, start_time_ms) ELSE rows
        delete_future == current_range.latest_time # 0 /\ current_range.latest_time > end_time_ms
        after_future == IF delete_future THEN cleanup_future_candles_after_time(after_old, end_time_ms) ELSE after_old
        integrity == check_data_integrity_range(after_future, start_time_ms, end_time_ms)
    IN  IF current_range.total_count = 0
        THEN [rows |-> rows, required_start |-> start_time_ms, required_end |-> end_time_ms, actions |-> {"no_data_found"}]
        ELSE [rows |-> after_future, required_start |-> start_time_ms, required_end |-> end_time_ms,
              actions |-> (IF after_old # rows THEN {"deleted_old_data"} ELSE {})
                          \cup (IF after_future # after_old THEN {"deleted_future_data"} ELSE {})
                          \cup (IF integrity.below_threshold THEN {"needs_loading"} ELSE {})]

(* main.adjust_data_for_settings_change for one symbol of the watchlist. *)
adjust_data_for_settings_change(s, analysis_hours, offset_minutes, frac) ==
    LET result == adjust_data_for_new_settings(kline_data[s], analysis_hours, offset_minutes, frac)
    IN  /\ kline_data' = [kline_data EXCEPT ![s] = result.rows]
        /\ reconcile' = [op |-> "adjust_data_for_settings_change", symbol |-> s, required_start |-> result.required_start,
                          required_end |-> result.required_end, actions |-> result.actions]
        /\ UNCHANGED <<clockVars, engineVars, ioVars, sinkVars, rowVars, taskVars, imbalanceVars, feedVars, curatorVars, connectionVars>>

calculate_required_data_range(analysis_hours, offset_minutes, frac) ==
    LET end_time_ms == AlignDownToMinute(current_time_ms(frac)) - offset_minutes * TicksPerMinute
    IN  [start_time_ms |-> end_time_ms - analysis_hours * MinutesPerHour * TicksPerMinute, end_time_ms |-> end_time_ms]

(* DatabaseQueries.check_startup_data_integrity: the actions needed. *)
check_startup_data_integrity(rows, analysis_hours, offset_minutes, frac) ==
    LET required_range == calculate_required_data_range(analysis_hours, offset_minutes, frac)
        current_range == get_data_time_range(rows)
        integrity == check_data_integrity_range(rows, required_range.start_time_ms, required_range.end_time_ms)
        old_data == current_range.earliest_time # 0 /\ current_range.earliest_time < required_range.start_time_ms
                        /\ {c \in rows : c < required_range.start_time_ms} # {}
        future_data == current_range.latest_time # 0 /\ current_range.latest_time > required_range.end_time_ms
                        /\ {c \in rows : c > required_range.end_time_ms} # {}
    IN  [required_start |-> required_range.start_time_ms, required_end |-> required_range.end_time_ms,
         actions_needed |-> (IF old_data THEN {"delete_old_data"} ELSE {})
                            \cup (IF future_data THEN {"delete_future_data"} ELSE {})
                            \cup (IF integrity.missing_count > 0 THEN {"load_missing_data"} ELSE {})]

execute_startup_data_corrections(rows, actions, before_time, after_time) ==
    LET after_old == IF "delete_old_data" \in actions THEN cleanup_old_candles_before_time(rows, before_time) ELSE rows
    IN  IF "delete_future_data" \in actions THEN cleanup_future_candles_after_time(after_old, after_time) ELSE after_old

(* main.check_and_correct_startup_data for one symbol of the watchlist. *)
check_and_correct_startup_data(s, analysis_hours, offset_minutes, frac) ==
    LET integrity_check == check_startup_data_integrity(kline_data[s], analysis_hours, offset_minutes, frac)
    IN  /\ kline_data' = [kline_data EXCEPT ![s] = execute_startup_data_corrections(kline_data[s], integrity_check.actions_needed,
                                                                                    integrity_check.required_start, integrity_check.required_end)]
        /\ reconcile' = [op |-> "check_and_correct_startup_data", symbol |-> s, required_start |-> integrity_check.required_start,
                          required_end |-> integrity_check.required_end, actions |-> integrity_check.actions_needed]
        /\ UNCHANGED <<clockVars, engineVars, ioVars, sinkVars, rowVars, taskVars, imbalanceVars, feedVars, curatorVars, connectionVars>>

LoaderIntegrityPercent == 90

(* DatabaseQueries.check_data_integrity: the closed rows of the last `hours` *)
(* hours before the clock reading against hours * 60 expected candles.      *)
check_data_integrity(rows, hours, frac) ==
    LET start_time_ms == current_time_ms(frac) - hours * MinutesPerHour * TicksPerMinute
        existing_count == Cardinality({c \in rows : c >= start_time_ms /\ c < current_time_ms(frac)})
        expected_count == Max(1, hours * MinutesPerHour)
    IN  [total_existing |-> existing_count,
         total_expected |-> expected_count,
         below_threshold |-> existing_count * 100 < LoaderIntegrityPercent * expected_count,
         missing_count |-> Max(0, expected_count - existing_count)]

(* main.historical_data_loader for one symbol of the watchlist, up to its   *)
(* first request to the exchange: the integrity test, called with           *)
(* int(total_hours * 60), and the range to load when the test fails.  The   *)
(* candles the exchange returns arrive through save_historical_kline_data.  *)
historical_data_loader_checks(s, analysis_hours, offset_minutes, frac) ==
    LET total_minutes == analysis_hours * MinutesPerHour + offset_minutes
        integrity == check_data_integrity(kline_data[s], total_minutes, frac)
        end_time_ms == current_time_ms(frac) - offset_minutes * TicksPerMinute
        start_time_ms == end_time_ms - total_minutes * TicksPerMinute
    IN  /\ reconcile' = [op |-> "historical_data_loader", symbol |-> s, required_start |-> start_time_ms, required_end |-> end_time_ms,
                          actions |-> IF integrity.below_threshold THEN {"load_historical_data"} ELSE {}]
        /\ UNCHANGED <<kline_data, clockVars, engineVars, ioVars, sinkVars, rowVars, taskVars, imbalanceVars, feedVars, curatorVars, connectionVars>>

(* DatabaseQueries.save_historical_kline_data: a loader stores one closed   *)
(* candle (ON CONFLICT ... DO UPDATE keeps one row per start_time).         *)
save_historical_kline_data(s, start) ==
    /\ kline_data' = [kline_data EXCEPT ![s] = @ \cup {start}]
    /\ reconcile' = NoReconcile
    /\ UNCHANGED <<clockVars, engineVars, ioVars, sinkVars, rowVars, taskVars, imbalanceVars, feedVars, curatorVars, connectionVars>>

MinuteRange(first, last) == {MinuteStart(m) : m \in first..last}

(* What the table may hold for a symbol when a run starts: nothing, the     *)
(* last hour, the last hour with older and newer rows around it, the last   *)
(* hour with one minute or with four minutes missing.                       *)
StoredRows ==
    {{},
     MinuteRange(StoreStartMinute - MinutesPerHour, StoreStartMinute - 1),
     MinuteRange(StoreStartMinute - MinutesPerHour - 2, StoreStartMinute),
     MinuteRange(StoreStartMinute - MinutesPerHour, StoreStartMinute - 1) \ {MinuteStart(StoreStartMinute - 30)},
     MinuteRange(StoreStartMinute - MinutesPerHour, StoreStartMinute - 1) \ MinuteRange(StoreStartMinute - 30, StoreStartMinute - 27)}

LoadedStarts == {MinuteStart(StoreStartMinute - MinutesPerHour - 1), MinuteStart(StoreStartMinute - 30), MinuteStart(StoreStartMinute)}

AnalysisHours == {1}

OffsetMinutes == {0, 1}

InitStore ==
    /\ now = StoreStartMinute
    /\ Constructed
    /\ priority_emitted = NoPriorityLog
    /\ sync_task = NoSyncTask
    /\ kline_rows = [s \in Symbols |-> EmptyDict]
    /\ tasks = EmptyDict
    /\ kline_data \in [Symbols -> StoredRows]
    /\ reconcile = NoReconcile
    /\ CuratorConstructed
    /\ ConnectionConstructed

NextStore ==
    \/ \E s \in Symbols, h \in AnalysisHours, o \in OffsetMinutes, frac \in Fractions : adjust_data_for_settings_change(s, h, o, frac)
    \/ \E s \in Symbols, h \in AnalysisHours, o \in OffsetMinutes, frac \in Fractions : check_and_correct_startup_data(s, h, o, frac)
    \/ \E s \in Symbols, start \in LoadedStarts : save_historical_kline_data(s, start)
    \/ \E s \in Symbols, h \in AnalysisHours, o \in OffsetMinutes, frac \in Fractions : historical_data_loader_checks(s, h, o, frac)

SpecStore == InitStore /\ [][NextStore]_vars

(* The time service on its own: start, then the periodic task, with each    *)
(* source answering or failing at every request.                            *)
NextClock ==
    \/ \E servers_ok \in BOOLEAN, exchange_ok \in BOOLEAN, offset \in ClockOffsets : time_manager_start(servers_ok, exchange_ok, offset)
    \/ \E servers_ok \in BOOLEAN, exchange_ok \in BOOLEAN, offset \in ClockOffsets : periodic_sync(servers_ok, exchange_ok, offset)

SpecClock == Init /\ [][NextClock]_vars


----------------------------------------------------------------------------
(* The feed's connection: bybit_websocket_loop, connect and the monitor.    *)
(* Connection times are in seconds.                                         *)

max_reconnect_attempts == 10
reconnect_delay == 5
connection_stable_time == 60
MaxDelay == 60
MonitorSleep == 30
SilenceLimit == 120
MaxUptime == 240

(* The monitor reads the clock after its sleep returned: later than the     *)
(* sleep's end by the time the wake-up takes.                               *)
ClockLag == 1

(* A message arrives this many seconds after the last wake-up of the monitor. *)
ArrivalOffsets == {0, 15}

Min(a, b) == IF a <= b THEN a ELSE b

(* main.py startup: the feed takes the stored watchlist as its pairs, the   *)
(* PriceFilter task and the reconnect loop are started.                     *)
startup ==
    /\ loop.at = "idle"
    /\ trading_pairs' = IF {s \in DOMAIN watchlist : watchlist[s]} # {} THEN {s \in DOMAIN watchlist : watchlist[s]} ELSE trading_pairs
    /\ is_running' = TRUE
    /\ loop' = [at |-> "connect", delay |-> 0]
    /\ UNCHANGED <<subscribed_pairs, subscription_pending, processed_candles, tick, websocket_connected, streaming_active, reconnect_attempts, monitoring, uptime, last_message_time, failures>>
    /\ UNCHANGED <<clockVars, engineVars, ioVars, sinkVars, rowVars, taskVars, imbalanceVars, storeVars, curatorVars>>

(* connect() up to its message loop: subscriptions start afresh, every      *)
(* trading pair is subscribed, the monitor task is created.                 *)
connect_opens ==
    /\ is_running
    /\ loop.at = "connect"
    /\ websocket_connected' = TRUE
    /\ last_message_time' = 0
    /\ uptime' = 0
    /\ subscribed_pairs' = {}
    /\ subscription_pending' = trading_pairs
    /\ monitoring' = TRUE
    /\ streaming_active' = TRUE
    /\ loop' = [at |-> "streaming", delay |-> 0]
    /\ UNCHANGED <<trading_pairs, processed_candles, tick, is_running, reconnect_attempts, failures>>
    /\ UNCHANGED <<clockVars, engineVars, ioVars, sinkVars, rowVars, taskVars, imbalanceVars, storeVars, curatorVars>>

mut_may_reconnect_below_limit(attempts) ==
    attempts < max_reconnect_attempts

may_reconnect(attempts) == attempts <= max_reconnect_attempts

backoff(attempts) == Min(reconnect_delay * attempts, MaxDelay)

(* connect() raises, while connecting or on an open connection: its finally *)
(* block runs and the loop's except branch counts the failure.              *)
connect_raises ==
    /\ is_running
    /\ loop.at \in {"connect", "streaming"}
    /\ websocket_connected' = FALSE
    /\ streaming_active' = FALSE
    /\ monitoring' = FALSE
    /\ reconnect_attempts' = reconnect_attempts + 1
    /\ failures' = failures + 1
    /\ IF may_reconnect(reconnect_attempts + 1)
       THEN /\ loop' = [at |-> "sleep", delay |-> backoff(reconnect_attempts + 1)]
            /\ is_running' = is_running
       ELSE /\ loop' = [at |-> "stopped", delay |-> 0]
            /\ is_running' = FALSE
    /\ UNCHANGED <<uptime, last_message_time>>
    /\ UNCHANGED <<clockVars, engineVars, ioVars, sinkVars, rowVars, taskVars, imbalanceVars, feedVars, storeVars, curatorVars>>

(* connect() returns: the server closed the connection normally. *)
connect_returns ==
    /\ is_running
    /\ loop.at = "streaming"
    /\ websocket_connected' = FALSE
    /\ streaming_active' = FALSE
    /\ monitoring' = FALSE
    /\ reconnect_attempts' = 0
    /\ failures' = 0
    /\ loop' = [at |-> "connect", delay |-> 0]
    /\ UNCHANGED <<is_running, uptime, last_message_time>>
    /\ UNCHANGED <<clockVars, engineVars, ioVars, sinkVars, rowVars, taskVars, imbalanceVars, feedVars, storeVars, curatorVars>>

(* asyncio.sleep(delay) of the loop is over. *)
sleep_elapsed ==
    /\ is_running
    /\ loop.at = "sleep"
    /\ loop' = [at |-> "connect", delay |-> 0]
    /\ UNCHANGED <<is_running, websocket_connected, streaming_active, reconnect_attempts, monitoring, uptime, last_message_time, failures>>
    /\ UNCHANGED <<clockVars, engineVars, ioVars, sinkVars, rowVars, taskVars, imbalanceVars, feedVars, storeVars, curatorVars>>

(* _handle_message: any message of the server stamps last_message_time. *)
handle_message(offset) ==
    /\ websocket_connected
    /\ uptime + offset > last_message_time
    /\ last_message_time' = uptime + offset
    /\ UNCHANGED <<is_running, websocket_connected, streaming_active, reconnect_attempts, loop, monitoring, uptime, failures>>
    /\ UNCHANGED <<clockVars, engineVars, ioVars, sinkVars, rowVars, taskVars, imbalanceVars, feedVars, storeVars, curatorVars>>

time_since_last_message(current_time) == current_time - last_message_time

(* One pass of the monitor's loop: sleep, then the silence check and the    *)
(* stability check.                                                         *)
monitor_connection ==
    /\ is_running
    /\ websocket_connected
    /\ monitoring
    /\ uptime + MonitorSleep <= MaxUptime
    /\ uptime' = uptime + MonitorSleep
    /\ failures' = IF uptime' >= 60 THEN 0 ELSE failures
    /\ IF time_since_last_message(uptime' + ClockLag) > SilenceLimit
       THEN /\ streaming_active' = FALSE
            /\ monitoring' = FALSE
            /\ UNCHANGED reconnect_attempts
       ELSE /\ reconnect_attempts' = IF uptime' + ClockLag > connection_stable_time THEN 0 ELSE reconnect_attempts
            /\ UNCHANGED <<streaming_active, monitoring>>
    /\ UNCHANGED <<is_running, websocket_connected, loop, last_message_time>>
    /\ UNCHANGED <<clockVars, engineVars, ioVars, sinkVars, rowVars, taskVars, imbalanceVars, feedVars, storeVars, curatorVars>>

(* The same time passes on a connection whose monitor has left its loop. *)
connection_idles ==
    /\ websocket_connected
    /\ ~monitoring
    /\ uptime + MonitorSleep <= MaxUptime
    /\ uptime' = uptime + MonitorSleep
    /\ failures' = IF uptime' >= 60 THEN 0 ELSE failures
    /\ UNCHANGED <<is_running, websocket_connected, streaming_active, reconnect_attempts, loop, monitoring, last_message_time>>
    /\ UNCHANGED <<clockVars, engineVars, ioVars, sinkVars, rowVars, taskVars, imbalanceVars, feedVars, storeVars, curatorVars>>

NextConnection ==
    \/ startup
    \/ connect_opens
    \/ connect_raises
    \/ connect_returns
    \/ sleep_elapsed
    \/ \E offset \in ArrivalOffsets : handle_message(offset)
    \/ monitor_connection
    \/ connection_idles

SpecConnection == Init /\ [][NextConnection]_vars

(* The loop and the monitor are tasks of the event loop: each runs when it  *)
(* can, and a connection attempt ends one way or the other.  What the       *)
(* server does on an open connection is left to the server.                 *)
connect_attempt == loop.at = "connect" /\ (connect_opens \/ connect_raises)

SpecConnectionLive == SpecConnection /\ WF_vars(connect_attempt) /\ WF_vars(sleep_elapsed) /\ WF_vars(monitor_connection)

----------------------------------------------------------------------------
(* The PriceFilter: the curator of the watchlist, and the callback that     *)
(* tells the feed about changed pairs.                                      *)

Pairs == {"BTCUSDT", "ETHUSDT"}

(* Prices the exchange answers with; 0: no price for the symbol. *)
CurrentPrices == {0, 90, 95}
HistoricalPrices == {100}
DropPercentages == {5, price_drop_percentage}

get_watchlist == {s \in DOMAIN watchlist : watchlist[s]}

mut_meets_criteria_above(current_price, historical_price, percentage) ==
    (historical_price - current_price) * 100 > percentage * historical_price

(* price_drop = (historical - current) / historical * 100 >= percentage,    *)
(* for historical > 0.                                                      *)
meets_criteria(current_price, historical_price, percentage) ==
    (historical_price - current_price) * 100 >= percentage * historical_price

analyze_price_changes(symbols, current_prices, historical_prices) ==
    [s \in {x \in symbols : current_prices[x] > 0 /\ historical_prices[x] > 0} |->
        [current_price |-> current_prices[s], historical_price |-> historical_prices[s],
         meets_criteria |-> meets_criteria(current_prices[s], historical_prices[s], price_filter.price_drop_percentage)]]

(* Pairs a subscribe request is sent for. *)
subscribe_to_new_pairs(new_pairs) ==
    IF new_pairs # {} /\ websocket_connected THEN new_pairs ELSE {}

(* Pairs an unsubscribe request is sent for. *)
unsubscribe_from_pairs(removed_pairs) ==
    IF removed_pairs # {} /\ websocket_connected THEN removed_pairs ELSE {}

(* on_pairs_updated of main.py: what the callback leaves in the feed. *)
on_pairs_updated(new_pairs, removed_pairs) ==
    [trading_pairs |-> (trading_pairs \cup new_pairs) \ removed_pairs,
     subscription_pending |-> subscription_pending \cup subscribe_to_new_pairs(new_pairs),
     subscribed_pairs |-> subscribed_pairs \ unsubscribe_from_pairs(removed_pairs),
     subscribe |-> subscribe_to_new_pairs(new_pairs),
     unsubscribe |-> unsubscribe_from_pairs(removed_pairs)]

(* One cycle of the curator. *)
update_watchlist(all_pairs, current_prices, historical_prices) ==
    /\ loop.at # "idle"
    /\ IF ~price_filter.watchlist_auto_update \/ all_pairs = {}
       THEN /\ cycle' = [NoCycle EXCEPT !.op = "skipped"]
            /\ UNCHANGED <<watchlist, trading_pairs, subscription_pending, subscribed_pairs>>
       ELSE LET current_watchlist == get_watchlist
                price_analysis == analyze_price_changes(all_pairs, current_prices, historical_prices)
                new_watchlist == {s \in DOMAIN price_analysis : price_analysis[s].meets_criteria}
                new_pairs == new_watchlist \ current_watchlist
                removed == current_watchlist \ new_watchlist
                notified == new_pairs # {}
                feed == on_pairs_updated(new_pairs, {})
            IN /\ watchlist' = [s \in ((DOMAIN watchlist) \cup new_pairs) \ removed |-> IF s \in new_pairs THEN TRUE ELSE watchlist[s]]
               /\ trading_pairs' = IF notified THEN feed.trading_pairs ELSE trading_pairs
               /\ subscription_pending' = IF notified THEN feed.subscription_pending ELSE subscription_pending
               /\ subscribed_pairs' = IF notified THEN feed.subscribed_pairs ELSE subscribed_pairs
               /\ cycle' = [op |-> "update_watchlist", current_watchlist |-> current_watchlist,
                            new_watchlist |-> new_watchlist, added |-> new_pairs, removed |-> removed,
                            callback |-> notified, new_pairs |-> IF notified THEN new_pairs ELSE {}, removed_pairs |-> {},
                            subscribe |-> IF notified THEN feed.subscribe ELSE {},
                            unsubscribe |-> IF notified THEN feed.unsubscribe ELSE {}]
    /\ UNCHANGED <<price_filter, processed_candles, tick>>
    /\ UNCHANGED <<clockVars, engineVars, ioVars, sinkVars, rowVars, taskVars, imbalanceVars, storeVars, connectionVars>>

(* PriceFilter.update_settings with a PRICE_DROP_PERCENTAGE. *)
price_filter_update_settings(percentage) ==
    /\ price_filter' = [price_filter EXCEPT !.price_drop_percentage = percentage]
    /\ UNCHANGED <<watchlist, cycle>>
    /\ UNCHANGED <<clockVars, engineVars, ioVars, sinkVars, rowVars, taskVars, imbalanceVars, feedVars, storeVars, connectionVars>>

(* The subscription of a pair is confirmed by its first tick. *)
CuratorKlines == {Kline(FALSE, 99, 1, now + 1, TRUE)}

(* The watchlist table the service starts with: each pair absent, active or *)
(* inactive.                                                                *)
WatchlistTables == UNION {[rows -> BOOLEAN] : rows \in SUBSET Pairs}

InitCurator ==
    /\ now = 2
    /\ Constructed
    /\ priority_emitted = NoPriorityLog
    /\ sync_task = NoSyncTask
    /\ kline_rows = [s \in Symbols |-> EmptyDict]
    /\ tasks = EmptyDict
    /\ kline_data = [s \in Symbols |-> {}]
    /\ reconcile = NoReconcile
    /\ ConnectionConstructed
    /\ watchlist \in WatchlistTables
    /\ price_filter \in [watchlist_auto_update : BOOLEAN, price_drop_percentage : {price_drop_percentage}]
    /\ cycle = NoCycle

NextCurator ==
    \/ startup
    \/ \E all_pairs \in SUBSET Pairs, current_prices \in [Pairs -> CurrentPrices], historical_prices \in [Pairs -> HistoricalPrices] :
            update_watchlist(all_pairs, current_prices, historical_prices)
    \/ \E percentage \in DropPercentages : price_filter_update_settings(percentage)
    \/ connect_opens
    \/ connect_returns
    \/ \E s \in Pairs, k \in CuratorKlines : handle_kline_data(s, k, SettingsBaseline)

SpecCurator == InitCurator /\ [][NextCurator]_vars

(* POST /api/watchlist: the row is inserted (or made active again), the     *)
(* pair joins the feed's trading pairs and a subscribe request is sent.     *)
add_to_watchlist(s) ==
    /\ loop.at # "idle"
    /\ watchlist' = [x \in (DOMAIN watchlist) \cup {s} |-> IF x = s THEN TRUE ELSE watchlist[x]]
    /\ trading_pairs' = trading_pairs \cup {s}
    /\ subscription_pending' = subscription_pending \cup subscribe_to_new_pairs({s})
    /\ UNCHANGED <<subscribed_pairs, price_filter, cycle, processed_candles, tick>>
    /\ UNCHANGED <<clockVars, engineVars, ioVars, sinkVars, rowVars, taskVars, imbalanceVars, storeVars, connectionVars>>

(* DELETE /api/watchlist/{symbol}: the row is deleted, the pair leaves the  *)
(* feed's trading pairs and an unsubscribe request is sent.                 *)
remove_from_watchlist(s) ==
    /\ loop.at # "idle"
    /\ watchlist' = [x \in (DOMAIN watchlist) \ {s} |-> watchlist[x]]
    /\ trading_pairs' = trading_pairs \ {s}
    /\ subscribed_pairs' = subscribed_pairs \ unsubscribe_from_pairs({s})
    /\ UNCHANGED <<subscription_pending, price_filter, cycle, processed_candles, tick>>
    /\ UNCHANGED <<clockVars, engineVars, ioVars, sinkVars, rowVars, taskVars, imbalanceVars, storeVars, connectionVars>>

(* The curator, the connection and the two watchlist endpoints together. *)
NextWatchlist ==
    \/ NextCurator
    \/ \E s \in Pairs : add_to_watchlist(s)
    \/ \E s \in Pairs : remove_from_watchlist(s)

SpecWatchlist == InitCurator /\ [][NextWatchlist]_vars

----------------------------------------------------------------------------
(* The AlertManager while the candle store comes and goes.  Without a store *)
(* (db_queries is None, or the query fails) the history of a symbol is not  *)
(* obtained: the checks that ask for it see no historical volume.           *)

NoHistory == << >>

OutageBaselines == {NoHistory, SettingsBaseline}

NextOutage ==
    \/ \E s \in Symbols, k \in SettingsKlines, hist \in OutageBaselines : OnCandle(s, k, hist)
    \/ Advance

SpecOutage == Init /\ [][NextOutage]_vars

----------------------------------------------------------------------------
(* The sink of the AlertManager: _send_alert and what it hands the alert to *)

(* The downstreams _send_alert calls, in the order of the calls. *)
Downstreams == {"broadcast", "telegram"}

AlertTypes == {"volume_spike", "consecutive_long", "priority", "preliminary_volume_spike", "final_volume_spike"}

mut_broadcast_json_raises(clients, failing) ==
    clients /\ "broadcast" \in failing

(* ConnectionManager.broadcast_json: does the call raise into _send_alert?  *)
(* Errors of serialisation and of send_text are caught and logged inside.   *)
broadcast_json_raises(clients, failing) == FALSE

(* TelegramBot.send_*_alert: each catches its errors and returns False. *)
telegram_raises(failing) == FALSE

(* The downstreams one _send_alert call reaches: the broadcast when a       *)
(* connection manager is wired, then Telegram when a bot is wired and the   *)
(* try block has not been left by an exception before.                      *)
send_alert_attempts(wired, clients, failing) ==
    LET broadcast == "broadcast" \in wired
        left == broadcast /\ broadcast_json_raises(clients, failing)
    IN  (IF broadcast THEN {"broadcast"} ELSE {})
        \cup (IF "telegram" \in wired /\ ~left THEN {"telegram"} ELSE {})

(* One _send_alert call: wired = the downstreams the AlertManager was built *)
(* with, clients = a client is connected, failing = the downstreams whose   *)
(* call fails this time.                                                    *)
SendAlert(alert_data, wired, clients, failing) ==
    /\ delivery' = [alert |-> <<alert_data>>, wired |-> wired, clients |-> clients, failing |-> failing,
                    attempted |-> send_alert_attempts(wired, clients, failing)]
    /\ alerts_table' = send_alert(alerts_table, alert_data)
    /\ UNCHANGED <<priority_emitted, clockVars, engineVars, ioVars, feedVars, serviceVars>>

SinkAlerts == {Alert(type, s, now, signal, 0) : type \in AlertTypes, s \in Symbols, signal \in BOOLEAN}

NextSink ==
    \E alert_data \in SinkAlerts, wired \in SUBSET Downstreams, clients \in BOOLEAN, failing \in SUBSET Downstreams :
        SendAlert(alert_data, wired, clients, failing)

SpecSink == Init /\ [][NextSink]_vars

----------------------------------------------------------------------------
(* The rows of the kline_data table and their writers: the loaders, which   *)
(* store what the exchange returned, and the save endpoint, which stores    *)
(* what the request carried.  A row is kept under (symbol, start_time).     *)

DATA_RETENTION_HOURS == 2

MaxCleanupPasses == 2

Candle(start, open, high, low, close, confirm) ==
    [start |-> start, open |-> open, high |-> high, low |-> low, close |-> close, confirm |-> confirm]

(* DatabaseQueries.save_kline_data: INSERT ... ON CONFLICT (symbol,         *)
(* start_time) DO UPDATE SET every column to the incoming value.            *)
save_kline_data(rows, kline, is_closed) ==
    Put(rows, kline.start,
        [open_price |-> kline.open, high_price |-> kline.high, low_price |-> kline.low,
         close_price |-> kline.close, is_closed |-> is_closed, is_long |-> kline.close > kline.open])

(* save_kline_data for every candle of a batch; the starts of a batch differ. *)
RECURSIVE save_batch(_, _, _)
save_batch(rows, klines, is_closed) ==
    IF klines = {}
    THEN rows
    ELSE LET kline == CHOOSE k \in klines : TRUE
         IN  save_batch(save_kline_data(rows, kline, is_closed), klines \ {kline}, is_closed)

check_candle_exists(rows, timestamp) == timestamp \in DOMAIN rows

(* DatabaseQueries.cleanup_old_candles: DELETE ... WHERE start_time < cutoff. *)
cleanup_old_candles(rows, current_time, retention_hours) ==
    LET cutoff_time == current_time - retention_hours * MinutesPerHour * TicksPerMinute
    IN  [x \in {c \in DOMAIN rows : ~(c < cutoff_time)} |-> rows[x]]

(* main.load_missing_startup_data for the klines the exchange returned:     *)
(* those in the range that have no row yet are saved as closed candles.     *)
load_missing_startup_data(s, start_time_ms, end_time_ms, klines) ==
    /\ kline_rows' = [kline_rows EXCEPT ![s] =
                        save_batch(@, {k \in klines : start_time_ms <= k.start /\ k.start < end_time_ms
                                                      /\ ~check_candle_exists(kline_rows[s], k.start)}, TRUE)]
    /\ UNCHANGED <<clockVars, engineVars, ioVars, sinkVars, feedVars, storeVars, curatorVars, connectionVars, taskVars, imbalanceVars>>

(* main.historical_data_loader for one symbol: every kline the exchange     *)
(* returned is saved as a closed candle.                                    *)
historical_data_loader(s, klines) ==
    /\ kline_rows' = [kline_rows EXCEPT ![s] = save_batch(@, klines, TRUE)]
    /\ UNCHANGED <<clockVars, engineVars, ioVars, sinkVars, feedVars, storeVars, curatorVars, connectionVars, taskVars, imbalanceVars>>

(* POST /api/kline/{symbol}/save: the required fields are present; the row  *)
(* is closed when the body says confirm.                                    *)
api_save_kline_data(s, kline) ==
    /\ kline_rows' = [kline_rows EXCEPT ![s] = save_kline_data(@, kline, kline.confirm)]
    /\ UNCHANGED <<clockVars, engineVars, ioVars, sinkVars, feedVars, storeVars, curatorVars, connectionVars, taskVars, imbalanceVars>>

(* DELETE /api/kline/{symbol}/cleanup *)
api_cleanup_old_data(s, retention_hours, frac) ==
    /\ kline_rows' = [kline_rows EXCEPT ![s] = cleanup_old_candles(@, current_time_ms(frac), retention_hours)]
    /\ UNCHANGED <<clockVars, engineVars, ioVars, sinkVars, feedVars, storeVars, curatorVars, connectionVars, taskVars, imbalanceVars>>

(* One pass of main.periodic_cleanup: an hour's sleep, then                 *)
(* alert_manager.cleanup_old_data(); DATA_RETENTION_HOURS is read and left  *)
(* unused, no row of the table is touched.                                  *)
periodic_cleanup ==
    /\ now + MinutesPerHour <= StoreStartMinute + MaxCleanupPasses * MinutesPerHour
    /\ now' = now + MinutesPerHour
    /\ alert_cooldowns' = [key \in {x \in DOMAIN alert_cooldowns :
                                      ~(alert_cooldowns[x] < get_utc_timestamp_ms + MinutesPerHour - CleanupAgeMinutes)}
                              |-> alert_cooldowns[key]]
    /\ NoRequest
    /\ UNCHANGED <<time_server_sync, exchange_sync, sync_task, settings, validators, consecutive_long_counters, preliminary_signals, emitted, feedVars, serviceVars>>

(* What the exchange returns for a one-minute interval: candles that start  *)
(* on a minute, with low <= open, close <= high.                            *)
ExchangeStarts == {MinuteStart(StoreStartMinute - DATA_RETENTION_HOURS * MinutesPerHour - 1), MinuteStart(StoreStartMinute - 1)}

ExchangeKlines == {Candle(start, 1, 2, 1, 2, TRUE) : start \in ExchangeStarts}
                  \cup {Candle(start, 2, 2, 1, 1, TRUE) : start \in ExchangeStarts}

ExchangeBatches == {b \in SUBSET ExchangeKlines : b # {} /\ \A k1, k2 \in b : k1.start = k2.start => k1 = k2}

(* What a request to the save endpoint may carry: any start, any prices. *)
ApiKlines ==
    {Candle(start, 1, 2, 1, 2, confirm) : start \in ExchangeStarts \cup {MinuteStart(StoreStartMinute - 1) + 1}, confirm \in BOOLEAN}
    \cup {Candle(MinuteStart(StoreStartMinute - 1), 1, 1, 2, 1, confirm) : confirm \in BOOLEAN}

(* The table as an earlier run of the service left it: one closed candle    *)
(* from before the retention window.                                        *)
StoredCandles == save_kline_data(EmptyDict, Candle(MinuteStart(StoreStartMinute - DATA_RETENTION_HOURS * MinutesPerHour - 2), 1, 2, 1, 2, TRUE), TRUE)

InitRows ==
    /\ now = StoreStartMinute
    /\ Constructed
    /\ priority_emitted = NoPriorityLog
    /\ sync_task = NoSyncTask
    /\ kline_rows = [s \in Symbols |-> StoredCandles]
    /\ tasks = EmptyDict
    /\ kline_data = [s \in Symbols |-> {}]
    /\ reconcile = NoReconcile
    /\ watchlist = [s \in Symbols |-> TRUE]
    /\ price_filter = [watchlist_auto_update |-> TRUE, price_drop_percentage |-> price_drop_percentage]
    /\ cycle = NoCycle
    /\ ConnectionConstructed

NextRows ==
    \/ \E s \in Symbols, klines \in ExchangeBatches :
        load_missing_startup_data(s, MinuteStart(StoreStartMinute - MinutesPerHour), MinuteStart(StoreStartMinute), klines)
    \/ \E s \in Symbols, klines \in ExchangeBatches : historical_data_loader(s, klines)
    \/ \E s \in Symbols, kline \in ApiKlines : api_save_kline_data(s, kline)
    \/ \E s \in Symbols, frac \in Fractions : api_cleanup_old_data(s, DATA_RETENTION_HOURS, frac)
    \/ periodic_cleanup

SpecRows == InitRows /\ [][NextRows]_vars

----------------------------------------------------------------------------
(* The ImbalanceAnalyzer.  Prices are whole numbers; a strength is the      *)
(* fraction num / den percent, and thresholds are tenths of a percent.      *)
(* An Optional[Dict] is a sequence of at most one record.                   *)

None == << >>

order_block_move == 20

breaker_block_strength == 10

ImbalanceCandle(open, high, low, close) ==
    [open |-> open, high |-> high, low |-> low, close |-> close, is_long |-> close > open]

(* strength >= threshold, for a positive denominator *)
at_least(strength, tenths) == strength.num * 10 >= tenths * strength.den

Imbalance(type, direction, num, den, top, bottom) ==
    <<[type |-> type, direction |-> direction, strength |-> [num |-> num, den |-> den], top |-> top, bottom |-> bottom]>>

mut_too_short_by_one(candles, minimum) == Len(candles) < minimum - 1

(* len(candles) < minimum *)
too_short(candles, minimum) == Len(candles) < minimum

(* candles[-n:-1] *)
before_current(candles, n) == SubSeq(candles, Max(1, Len(candles) - n + 1), Len(candles) - 1)

(* for candle in reversed(window): the last candle of the given direction *)
last_of_direction(window, long) ==
    LET found == {i \in 1..Len(window) : window[i].is_long = long}
    IN  IF found = {} THEN None ELSE <<window[Greatest(found)]>>

analyze_fair_value_gap(self, candles) ==
    IF ~self.fair_value_gap_enabled \/ too_short(candles, 3)
    THEN None
    ELSE IF Len(candles) < 3
    THEN None                                       \* IndexError, caught
    ELSE LET prev_candle == candles[Len(candles) - 2]
             current_candle == candles[Len(candles) - 1]
             next_candle == candles[Len(candles)]
             bullish == prev_candle.low > next_candle.high /\ current_candle.is_long
             bearish == prev_candle.high < next_candle.low /\ ~current_candle.is_long
             bullish_gap == [num |-> (prev_candle.low - next_candle.high) * 100, den |-> next_candle.high]
             bearish_gap == [num |-> (next_candle.low - prev_candle.high) * 100, den |-> prev_candle.high]
         IN  IF bullish /\ next_candle.high = 0
             THEN None                              \* ZeroDivisionError, caught
             ELSE IF bullish /\ at_least(bullish_gap, self.min_gap_percentage)
             THEN Imbalance("fair_value_gap", "bullish", bullish_gap.num, bullish_gap.den, prev_candle.low, next_candle.high)
             ELSE IF bearish /\ prev_candle.high = 0
             THEN None
             ELSE IF bearish /\ at_least(bearish_gap, self.min_gap_percentage)
             THEN Imbalance("fair_value_gap", "bearish", bearish_gap.num, bearish_gap.den, next_candle.low, prev_candle.high)
             ELSE None

analyze_order_block(self, candles) ==
    IF ~self.order_block_enabled \/ too_short(candles, 10)
    THEN None
    ELSE LET current_candle == candles[Len(candles)]
             window == before_current(candles, 10)
             last_bearish == last_of_direction(window, FALSE)
             last_bullish == last_of_direction(window, TRUE)
             bullish == last_bearish # None /\ current_candle.is_long
             bearish == last_bullish # None /\ ~current_candle.is_long
             up_move == [num |-> (current_candle.close - last_bearish[1].high) * 100, den |-> last_bearish[1].high]
             down_move == [num |-> (last_bullish[1].low - current_candle.close) * 100, den |-> last_bullish[1].low]
         IN  IF bullish /\ last_bearish[1].high = 0
             THEN None
             ELSE IF bullish /\ at_least(up_move, order_block_move)
             THEN Imbalance("order_block", "bullish", up_move.num, up_move.den, last_bearish[1].high, last_bearish[1].low)
             ELSE IF bearish /\ last_bullish[1].low = 0
             THEN None
             ELSE IF bearish /\ at_least(down_move, order_block_move)
             THEN Imbalance("order_block", "bearish", down_move.num, down_move.den, last_bullish[1].high, last_bullish[1].low)
             ELSE None

analyze_breaker_block(self, candles) ==
    IF ~self.breaker_block_enabled \/ too_short(candles, 15)
    THEN None
    ELSE IF Len(candles) < 2
    THEN None                                       \* max() of an empty list, caught
    ELSE LET current_candle == candles[Len(candles)]
             window == before_current(candles, 15)
             max_high == Greatest({window[i].high : i \in 1..Len(window)})
             min_low == Least({window[i].low : i \in 1..Len(window)})
             bullish == current_candle.close > max_high /\ current_candle.is_long
             bearish == current_candle.close < min_low /\ ~current_candle.is_long
             up_strength == [num |-> (current_candle.close - max_high) * 100, den |-> max_high]
             down_strength == [num |-> (min_low - current_candle.close) * 100, den |-> min_low]
         IN  IF bullish /\ max_high = 0
             THEN None
             ELSE IF bullish /\ at_least(up_strength, breaker_block_strength)
             THEN Imbalance("breaker_block", "bullish", up_strength.num, up_strength.den, max_high, min_low)
             ELSE IF bearish /\ min_low = 0
             THEN None
             ELSE IF bearish /\ at_least(down_strength, breaker_block_strength)
             THEN Imbalance("breaker_block", "bearish", down_strength.num, down_strength.den, max_high, min_low)
             ELSE None

analyze_all_imbalances(self, candles) ==
    LET fvg == analyze_fair_value_gap(self, candles)
        ob == analyze_order_block(self, candles)
        bb == analyze_breaker_block(self, candles)
    IN  IF self.fair_value_gap_enabled /\ fvg # None /\ at_least(fvg[1].strength, self.min_strength)
        THEN fvg
        ELSE IF self.order_block_enabled /\ ob # None /\ at_least(ob[1].strength, self.min_strength)
        THEN ob
        ELSE IF self.breaker_block_enabled /\ bb # None /\ at_least(bb[1].strength, self.min_strength)
        THEN bb
        ELSE None

(* One analysis of a window: what each kind's method and what               *)
(* analyze_all_imbalances return.                                           *)
Analyze(candles) ==
    /\ analysis' = [candles |-> candles,
                    fair_value_gap |-> analyze_fair_value_gap(imbalance_analyzer, candles),
                    order_block |-> analyze_order_block(imbalance_analyzer, candles),
                    breaker_block |-> analyze_breaker_block(imbalance_analyzer, candles),
                    all_imbalances |-> analyze_all_imbalances(imbalance_analyzer, candles)]
    /\ UNCHANGED <<imbalance_analyzer, clockVars, engineVars, ioVars, sinkVars, feedVars, storeVars, curatorVars, connectionVars, rowVars, taskVars>>

(* ImbalanceAnalyzer.update_settings with one key; the analysis observed    *)
(* starts anew under the new settings.                                      *)
imbalance_update_settings(key, value) ==
    /\ imbalance_analyzer' =
        CASE key = "MIN_STRENGTH" -> [imbalance_analyzer EXCEPT !.min_strength = value]
          [] key = "ORDER_BLOCK_ENABLED" -> [imbalance_analyzer EXCEPT !.order_block_enabled = value]
          [] OTHER -> imbalance_analyzer
    /\ analysis' = NoAnalysis
    /\ UNCHANGED <<clockVars, engineVars, ioVars, sinkVars, feedVars, storeVars, curatorVars, connectionVars, rowVars, taskVars>>

(* Candles with low <= open, close <= high: a flat one (high = low), a      *)
(* rising and a falling one, and a rising one above the others.             *)
Flat == ImbalanceCandle(100, 100, 100, 100)

CandleShapes == {Flat, ImbalanceCandle(100, 103, 100, 103), ImbalanceCandle(103, 103, 100, 100), ImbalanceCandle(105, 106, 105, 106)}

Fillers == {Flat, ImbalanceCandle(105, 106, 105, 106)}

(* Windows of 3, 9, 10, 14 and 15 candles, and one of 2. *)
LeadingCandles == {0, 6, 7, 11, 12}

Windows ==
    {[i \in 1..n |-> f] \o <<a, b, c>> : n \in LeadingCandles, f \in Fillers, a \in CandleShapes, b \in CandleShapes, c \in CandleShapes}
    \cup {<<ImbalanceCandle(105, 106, 105, 106), ImbalanceCandle(100, 103, 100, 103)>>}

AnalyzerUpdates == {<<"MIN_STRENGTH", 5>>, <<"MIN_STRENGTH", 40>>, <<"ORDER_BLOCK_ENABLED", TRUE>>, <<"ORDER_BLOCK_ENABLED", FALSE>>}

NextImbalance ==
    \/ \E candles \in Windows : Analyze(candles)
    \/ \E u \in AnalyzerUpdates : imbalance_update_settings(u[1], u[2])

SpecImbalance == Init /\ [][NextImbalance]_vars

----------------------------------------------------------------------------
(* The reconciliation as asyncio tasks.  The calls of DatabaseQueries do    *)
(* not suspend (psycopg2 is synchronous), so a task runs from one           *)
(* asyncio.sleep or exchange request to the next without another task in    *)
(* between.  A run for a symbol is the iteration of a reconciliation task   *)
(* for that symbol together with the loader task it creates.                *)

MaxTasks == 4

Task(fn, run, symbol, analysis_hours, offset_minutes, start_time_ms, end_time_ms, todo, at) ==
    [fn |-> fn, run |-> run, symbol |-> symbol, analysis_hours |-> analysis_hours, offset_minutes |-> offset_minutes,
     start_time_ms |-> start_time_ms, end_time_ms |-> end_time_ms, todo |-> todo, at |-> at]

(* asyncio.create_task: the task gets the next id *)
create_task(running, task) == Put(running, Cardinality(DOMAIN running) + 1, task)

(* main.update_all_components_settings with ANALYSIS_HOURS or               *)
(* OFFSET_MINUTES: a task for adjust_data_for_settings_change is created,   *)
(* then the AlertManager takes the settings.                                *)
update_all_components_settings(u) ==
    /\ Cardinality(DOMAIN tasks) < MaxTasks
    /\ tasks' = IF clears_caches(u)
                THEN create_task(tasks, Task("adjust_data_for_settings_change", Cardinality(DOMAIN tasks) + 1, "",
                                             IF u.key = "ANALYSIS_HOURS" THEN u.num ELSE settings.analysis_hours,
                                             IF u.key = "OFFSET_MINUTES" THEN u.num ELSE settings.offset_minutes,
                                             0, 0, {}, "start"))
                ELSE tasks
    /\ settings' = manager_settings(u)
    /\ validators' = validators_update_settings(u)
    /\ alert_cooldowns' = IF clears_caches(u) THEN EmptyDict ELSE alert_cooldowns
    /\ consecutive_long_counters' = IF clears_caches(u) THEN EmptyDict ELSE consecutive_long_counters
    /\ preliminary_signals' = IF clears_caches(u) THEN EmptyDict ELSE preliminary_signals
    /\ NoRequest
    /\ UNCHANGED <<emitted, clockVars, feedVars, storeVars, curatorVars, connectionVars, rowVars, imbalanceVars>>

(* The task of adjust_data_for_settings_change runs to its next sleep: it   *)
(* reads the watchlist when it starts, reconciles the next symbol and       *)
(* creates the loader when loading is needed, or ends after the last one.   *)
adjust_task_runs(id, frac) ==
    LET task == tasks[id]
        todo == IF task.at = "start" THEN get_watchlist ELSE task.todo
        s == CHOOSE x \in todo : TRUE
        result == adjust_data_for_new_settings(kline_data[s], task.analysis_hours, task.offset_minutes, frac)
        asleep == [tasks EXCEPT ![id] = [task EXCEPT !.at = "sleep", !.symbol = s, !.todo = todo \ {s}]]
    IN  /\ task.fn = "adjust_data_for_settings_change"
        /\ task.at \in {"start", "sleep"}
        /\ IF todo = {}
           THEN /\ tasks' = [tasks EXCEPT ![id] = [task EXCEPT !.at = "done"]]
                /\ UNCHANGED storeVars
           ELSE /\ "needs_loading" \in result.actions => Cardinality(DOMAIN tasks) < MaxTasks
                /\ kline_data' = [kline_data EXCEPT ![s] = result.rows]
                /\ reconcile' = [op |-> "adjust_data_for_settings_change", symbol |-> s, required_start |-> result.required_start,
                                 required_end |-> result.required_end, actions |-> result.actions]
                /\ tasks' = IF "needs_loading" \in result.actions
                            THEN create_task(asleep, Task("load_missing_data_for_symbol", id, s, task.analysis_hours, task.offset_minutes,
                                                          result.required_start, result.required_end, {}, "fetch"))
                            ELSE asleep
        /\ UNCHANGED <<clockVars, engineVars, ioVars, sinkVars, feedVars, curatorVars, connectionVars, rowVars, imbalanceVars>>

(* The task of check_and_correct_startup_data runs to its next sleep. *)
startup_task_runs(id, frac) ==
    LET task == tasks[id]
        todo == IF task.at = "start" THEN get_watchlist ELSE task.todo
        s == CHOOSE x \in todo : TRUE
        integrity_check == check_startup_data_integrity(kline_data[s], task.analysis_hours, task.offset_minutes, frac)
        asleep == [tasks EXCEPT ![id] = [task EXCEPT !.at = "sleep", !.symbol = s, !.todo = todo \ {s}]]
    IN  /\ task.fn = "check_and_correct_startup_data"
        /\ task.at \in {"start", "sleep"}
        /\ IF todo = {}
           THEN /\ tasks' = [tasks EXCEPT ![id] = [task EXCEPT !.at = "done"]]
                /\ UNCHANGED storeVars
           ELSE /\ "load_missing_data" \in integrity_check.actions_needed => Cardinality(DOMAIN tasks) < MaxTasks
                /\ kline_data' = [kline_data EXCEPT ![s] = execute_startup_data_corrections(kline_data[s], integrity_check.actions_needed,
                                                                                            integrity_check.required_start, integrity_check.required_end)]
                /\ reconcile' = [op |-> "check_and_correct_startup_data", symbol |-> s, required_start |-> integrity_check.required_start,
                                 required_end |-> integrity_check.required_end, actions |-> integrity_check.actions_needed]
                /\ tasks' = IF "load_missing_data" \in integrity_check.actions_needed
                            THEN create_task(asleep, Task("load_missing_startup_data", id, s, task.analysis_hours, task.offset_minutes,
                                                          integrity_check.required_start, integrity_check.required_end, {}, "fetch"))
                            ELSE asleep
        /\ UNCHANGED <<clockVars, engineVars, ioVars, sinkVars, feedVars, curatorVars, connectionVars, rowVars, imbalanceVars>>

(* A loader task gets the exchange's answer to its request: the candles of  *)
(* its range, stored where no row exists yet, or an error and nothing       *)
(* stored; the task ends after the batch.                                   *)
loader_task_runs(id, ok) ==
    LET task == tasks[id]
        klines == {c \in task.start_time_ms..(task.end_time_ms - 1) : c % TicksPerMinute = 0}
    IN  /\ task.fn \in {"load_missing_data_for_symbol", "load_missing_startup_data"}
        /\ task.at = "fetch"
        /\ kline_data' = [kline_data EXCEPT ![task.symbol] = IF ok THEN @ \cup klines ELSE @]
        /\ reconcile' = NoReconcile
        /\ tasks' = [tasks EXCEPT ![id] = [task EXCEPT !.at = "done"]]
        /\ UNCHANGED <<clockVars, engineVars, ioVars, sinkVars, feedVars, curatorVars, connectionVars, rowVars, imbalanceVars>>

(* The runs that still have work ahead for a symbol: those whose loader     *)
(* waits for the exchange.                                                  *)
runs_at_work(s) == {tasks[id].run : id \in {i \in DOMAIN tasks : tasks[i].symbol = s /\ tasks[i].at = "fetch"}}

TaskUpdates == {Setting("OFFSET_MINUTES", TRUE, o, FALSE) : o \in OffsetMinutes} \cup {Setting("ANALYSIS_HOURS", TRUE, h, FALSE) : h \in AnalysisHours}

(* lifespan: the watchlist holds the symbols, the table is as the last run  *)
(* of the service left it, and the startup check has been created.          *)
InitTasks ==
    /\ now = StoreStartMinute
    /\ Constructed
    /\ priority_emitted = NoPriorityLog
    /\ sync_task = NoSyncTask
    /\ kline_rows = [s \in Symbols |-> EmptyDict]
    /\ tasks = create_task(EmptyDict, Task("check_and_correct_startup_data", 1, "", settings.analysis_hours, settings.offset_minutes, 0, 0, {}, "start"))
    /\ kline_data \in [Symbols -> StoredRows]
    /\ reconcile = NoReconcile
    /\ watchlist = [s \in Symbols |-> TRUE]
    /\ price_filter = [watchlist_auto_update |-> TRUE, price_drop_percentage |-> price_drop_percentage]
    /\ cycle = NoCycle
    /\ ConnectionConstructed

NextTasks ==
    \/ \E u \in TaskUpdates : update_all_components_settings(u)
    \/ \E id \in DOMAIN tasks, frac \in Fractions : adjust_task_runs(id, frac)
    \/ \E id \in DOMAIN tasks, frac \in Fractions : startup_task_runs(id, frac)
    \/ \E id \in DOMAIN tasks, ok \in BOOLEAN : loader_task_runs(id, ok)

SpecTasks == InitTasks /\ [][NextTasks]_vars

----------------------------------------------------------------------------
(* Properties *)

Served == call.op = "process_kline_data"

(* The step serves a confirmed, well-formed candle that the TimeManager     *)
(* clock takes as closed: the candle reaches _process_closed_candle.        *)
ServesClosedCandle == call'.op = "process_kline_data" /\ call'.kline.confirm /\ call'.kline.numeric /\ is_candle_closed(call'.kline)

ServedClosedCandle == Served /\ call.kline.confirm /\ call.kline.numeric /\ is_candle_closed(call.kline)

Has(batch, type) == \E i \in DOMAIN batch : batch[i].alert_type = type

(* C1: after a closed candle is processed, the symbol's consecutive-long    *)
(* counter is its previous value plus 1 when close > open, and 0 otherwise  *)
(* (an absent counter counts as 0).                                         *)
C1_CounterFollowsCandle ==
    [][ServesClosedCandle =>
         Get(consecutive_long_counters', call'.symbol, 0) =
             IF call'.kline.close > call'.kline.open THEN Get(consecutive_long_counters, call'.symbol, 0) + 1 ELSE 0]_vars

C1_Witness == ServedClosedCandle /\ call.kline.close > call.kline.open /\ Get(consecutive_long_counters, call.symbol, 0) = 2

(* C2: no VolumeSpike alert is emitted for a symbol less than               *)
(* alertGroupingMinutes after the symbol's previous VolumeSpike alert       *)
(* (timestamps compared).                                                   *)
C2_VolumeSpikesApart ==
    [][\A i \in DOMAIN alerts' :
         (alerts'[i].alert_type = "volume_spike" /\ VolumeKey(alerts'[i].symbol) \in DOMAIN emitted)
             => alerts'[i].timestamp - emitted[VolumeKey(alerts'[i].symbol)] >= settings'.alert_grouping_minutes]_vars

(* C3 as stated: no ConsecutiveLong alert is emitted for a symbol less than *)
(* alertGroupingMinutes after the symbol's previous ConsecutiveLong alert,  *)
(* whatever settings updates and cleanup runs lie between them.             *)
C3_ConsecutiveApart ==
    [][\A i \in DOMAIN alerts' :
         (alerts'[i].alert_type = "consecutive_long" /\ ConsecutiveKey(alerts'[i].symbol) \in DOMAIN emitted)
             => alerts'[i].timestamp - emitted[ConsecutiveKey(alerts'[i].symbol)] >= settings'.alert_grouping_minutes]_vars

(* C3 amended: a ConsecutiveLong alert is at least alertGroupingMinutes     *)
(* (the value in force when it is emitted) after the symbol's previous      *)
(* ConsecutiveLong alert, provided the stamp of that previous alert is      *)
(* still held under the symbol's own consecutive key, that is, no settings  *)
(* update carrying ANALYSIS_HOURS or OFFSET_MINUTES and no cleanup of a     *)
(* stamp older than an hour has dropped it; the held stamp is the time of   *)
(* the previous alert, and the VolumeSpike key plays no part.               *)
C3_ConsecutiveApartWhileStamped ==
    [][/\ \A i \in DOMAIN alerts' :
            (alerts'[i].alert_type = "consecutive_long" /\ ConsecutiveKey(alerts'[i].symbol) \in DOMAIN alert_cooldowns)
                => alerts'[i].timestamp - emitted[ConsecutiveKey(alerts'[i].symbol)] >= settings'.alert_grouping_minutes
       /\ \A s \in Symbols : ConsecutiveKey(s) \in DOMAIN alert_cooldowns'
            => ConsecutiveKey(s) \in DOMAIN emitted' /\ alert_cooldowns'[ConsecutiveKey(s)] = emitted'[ConsecutiveKey(s)]]_vars

(* The cooldown held back a ConsecutiveLong alert: the run is long enough,  *)
(* the stamp of the previous alert is held, and the batch has no            *)
(* ConsecutiveLong.                                                         *)
C3_Witness ==
    /\ ServedClosedCandle
    /\ settings.consecutive_alerts_enabled
    /\ Get(consecutive_long_counters, call.symbol, 0) >= settings.consecutive_long_count
    /\ ConsecutiveKey(call.symbol) \in DOMAIN alert_cooldowns
    /\ get_utc_timestamp_ms - alert_cooldowns[ConsecutiveKey(call.symbol)] > 0
    /\ ~Has(alerts, "consecutive_long")

(* C4: a Priority alert is in the batch of a closed candle only if (a) a    *)
(* ConsecutiveLong alert is in the same batch and (b) the symbol's          *)
(* VolumeSpike stamp, or the preliminary that was pending when the candle   *)
(* arrived, is at most consecutive_count minutes old.                       *)
C4_PriorityNeedsRunAndRecentSpike ==
    [][\A i \in DOMAIN alerts' : alerts'[i].alert_type = "priority" =>
         /\ Has(alerts', "consecutive_long")
         /\ \/ /\ VolumeKey(alerts'[i].symbol) \in DOMAIN alert_cooldowns'
               /\ get_utc_timestamp_ms - alert_cooldowns'[VolumeKey(alerts'[i].symbol)] <= alerts'[i].consecutive_count
            \/ /\ alerts'[i].symbol \in DOMAIN preliminary_signals
               /\ get_utc_timestamp_ms - preliminary_signals[alerts'[i].symbol].timestamp <= alerts'[i].consecutive_count]_vars

(* C5: processing a closed candle emits a FinalVolumeSpike exactly when a   *)
(* preliminary was pending for the symbol as the candle arrived, and leaves *)
(* no preliminary pending for the symbol.                                   *)
C5_FinalIffPreliminaryPending ==
    [][ServesClosedCandle =>
         /\ Has(alerts', "final_volume_spike") <=> call'.symbol \in DOMAIN preliminary_signals
         /\ Cardinality({i \in DOMAIN alerts' : alerts'[i].alert_type = "final_volume_spike"}) <= 1
         /\ call'.symbol \notin DOMAIN preliminary_signals']_vars

C5_Witness == ServedClosedCandle /\ Has(alerts, "final_volume_spike") /\ call.symbol \notin DOMAIN preliminary_signals

(* C6: every FinalVolumeSpike carries is_true_signal = (close > open) of    *)
(* the closed candle that produced it.                                      *)
C6_FinalSignalIsCandleDirection ==
    \A i \in DOMAIN alerts : alerts[i].alert_type = "final_volume_spike" =>
        (Served /\ call.kline.confirm /\ alerts[i].is_true_signal = (call.kline.close > call.kline.open))

(* A preliminary raised on a long open candle, closed by a candle that is   *)
(* not long.                                                                *)
C6_Witness == \E i \in DOMAIN alerts : alerts[i].alert_type = "final_volume_spike" /\ ~alerts[i].is_true_signal /\ call.kline.close <= call.kline.open

(* C7: when the batch of a closed candle holds a VolumeSpike and a          *)
(* ConsecutiveLong and priority alerts are enabled, the batch ends with a   *)
(* Priority that comes after both.                                          *)
C7_PriorityFollowsBoth ==
    (Has(alerts, "volume_spike") /\ Has(alerts, "consecutive_long") /\ settings.priority_alerts_enabled) =>
        /\ alerts[Len(alerts)].alert_type = "priority"
        /\ \E i, j \in 1..(Len(alerts) - 1) : i < j /\ alerts[i].alert_type = "volume_spike" /\ alerts[j].alert_type = "consecutive_long"
        /\ sent = alerts

C7_Witness == Has(alerts, "volume_spike") /\ Has(alerts, "consecutive_long") /\ Has(alerts, "priority") /\ settings.priority_alerts_enabled

(* C8: every tick the feed receives for a symbol of its symbol set reaches  *)
(* the AlertManager's process_kline_data: every open tick, and every closed *)
(* tick newer than the last processed one.                                  *)
C8_EveryTickReachesEngine == tick.accepted => (IF tick.kline.confirm THEN tick.fresh => tick.delivered ELSE tick.delivered)

(* C9: an open candle yields a PreliminaryVolumeSpike, recorded as the      *)
(* symbol's pending preliminary, exactly when volume alerts are enabled,    *)
(* close > open, volume x close >= minVolumeUsdt, the baseline has at least *)
(* 10 samples and the ratio to its average reaches volumeMultiplier.        *)
C9_PreliminaryIffConditions ==
    (Served /\ ~call.kline.confirm /\ call.kline.numeric) =>
        ((Has(alerts, "preliminary_volume_spike") /\ call.symbol \in DOMAIN preliminary_signals) <=>
            /\ settings.volume_alerts_enabled
            /\ call.kline.close > call.kline.open
            /\ volume_usdt(call.kline) >= settings.min_volume_usdt
            /\ Len(SettingsBaseline) >= MinBaselineSamples
            /\ ratio_reaches(volume_usdt(call.kline), SettingsBaseline, settings.volume_multiplier))

(* C10: while volume alerts are disabled, processing an open candle emits   *)
(* no PreliminaryVolumeSpike and leaves the pending preliminaries as they   *)
(* were.                                                                    *)
C10_NoPreliminaryWhenDisabled ==
    [][(call'.op = "process_kline_data" /\ ~call'.kline.confirm /\ ~settings.volume_alerts_enabled) =>
         (alerts' = << >> /\ preliminary_signals' = preliminary_signals)]_vars

(* C11: a VolumeSpike is in the batch of a served candle only if the candle *)
(* is a closed long one, volume x close >= minVolumeUsdt, the baseline has  *)
(* at least 10 samples, the ratio to the baseline average reaches           *)
(* volumeMultiplier, and the symbol's previous VolumeSpike is at least      *)
(* alertGroupingMinutes old.                                                *)
C11_VolumeSpikeOnlyIfConditions ==
    [][\A s \in Symbols, k \in Klines, hist \in Baselines :
         (OnCandle(s, k, hist) /\ Has(alerts', "volume_spike")) =>
             /\ k.confirm /\ is_candle_closed(k)
             /\ k.close > k.open
             /\ volume_usdt(k) >= settings.min_volume_usdt
             /\ Len(hist) >= MinBaselineSamples
             /\ ratio_reaches(volume_usdt(k), hist, settings.volume_multiplier)
             /\ VolumeKey(s) \in DOMAIN emitted => get_utc_timestamp_ms - emitted[VolumeKey(s)] >= settings.alert_grouping_minutes]_vars

(* C12: the closed candles the feed delivers to process_kline_data for a    *)
(* symbol have strictly increasing start: a delivery happens only for a     *)
(* closed tick whose start is greater than the start recorded for the       *)
(* symbol, the delivered start is recorded, and nothing else changes the    *)
(* record.                                                                  *)
C12_DeliveredStartsIncrease ==
    [][IF call'.op = "process_kline_data"
       THEN /\ call'.kline.confirm
            /\ call'.kline.start > Get(processed_candles, call'.symbol, 0)
            /\ processed_candles' = Put(processed_candles, call'.symbol, call'.kline.start)
       ELSE processed_candles' = processed_candles]_vars

(* A closed tick repeating the start already delivered is dropped. *)
C12_Witness ==
    /\ tick.accepted /\ tick.kline.confirm /\ ~tick.delivered
    /\ tick.symbol \in DOMAIN processed_candles
    /\ processed_candles[tick.symbol] = tick.kline.start
    /\ call.op = "none"

(* The rows of the symbol of the last reconciliation run. *)
ReconciledRows == kline_data[reconcile.symbol]

(* C13: once the reconciliation run of a settings change has completed for  *)
(* a symbol, either no candle of the required window is missing or the run  *)
(* reported needs_loading for the symbol.                                   *)
C13_GapFreeOrNeedsLoading ==
    reconcile.op = "adjust_data_for_settings_change" =>
        \/ check_data_integrity_range(ReconciledRows, reconcile.required_start, reconcile.required_end).missing_count = 0
        \/ "needs_loading" \in reconcile.actions

(* C14: after the delete step of a reconciliation run (startup or settings  *)
(* change) no stored closed candle of the symbol starts before the start or *)
(* at or after the end of the required window.                              *)
C14_NoCandleOutsideWindow ==
    reconcile.op \in {"adjust_data_for_settings_change", "check_and_correct_startup_data"} =>
        \A c \in ReconciledRows : c >= reconcile.required_start /\ c < reconcile.required_end

(* C15: a curator cycle that removes symbols from the watchlist invokes the *)
(* pairs callback with the removed symbols: after the cycle none of them is *)
(* among the feed's trading pairs, and on an open connection an unsubscribe *)
(* request was sent for each.                                               *)
C15_RemovedPairsLeaveFeed ==
    [][\A all_pairs \in SUBSET Pairs, current_prices \in [Pairs -> CurrentPrices], historical_prices \in [Pairs -> HistoricalPrices] :
            (update_watchlist(all_pairs, current_prices, historical_prices) /\ cycle'.removed # {}) =>
                /\ cycle'.callback
                /\ cycle'.removed_pairs = cycle'.removed
                /\ cycle'.removed \cap trading_pairs' = {}
                /\ websocket_connected => cycle'.removed \subseteq cycle'.unsubscribe]_vars

(* The symbols of the exchange's list whose price fell by at least the      *)
(* configured percentage over the look-back period.                         *)
Qualifiers(all_pairs, current_prices, historical_prices) ==
    {s \in all_pairs : /\ current_prices[s] > 0
                       /\ historical_prices[s] > 0
                       /\ (historical_prices[s] - current_prices[s]) * 100 >= price_filter.price_drop_percentage * historical_prices[s]}

C17_BackoffThenFatal ==
    [][/\ failures' = failures + 1 =>
            IF failures' <= 10
            THEN loop'.at = "sleep" /\ loop'.delay = Min(5 * failures', 60) /\ is_running' /\ ~websocket_connected'
            ELSE loop'.at = "stopped" /\ ~is_running' /\ ~websocket_connected'
       /\ (loop.at = "sleep" /\ loop' # loop) => (loop'.at = "connect" /\ failures' = failures)
       /\ loop.at = "stopped" => (loop' = loop /\ ~websocket_connected')
       /\ (websocket_connected' /\ uptime' >= 60) => (failures' = 0 /\ reconnect_attempts' = 0)]_vars

C17_Witness == loop.at = "stopped" /\ failures = 11 /\ ~is_running

(* C18: an open connection on which no message has arrived for more than   *)
(* 120 s, as the monitor measures it, is eventually torn down.              *)
C18_SilenceForcesReconnect ==
    (websocket_connected /\ time_since_last_message(uptime + ClockLag) > 120) ~> ~websocket_connected

(* C19: every alert a process_kline_data call emits, preliminary ones       *)
(* included, is handed to _send_alert, in the order of emission.            *)
C19_EveryAlertIsSent == Served => sent = alerts

(* C20: every alert handed to _send_alert has a row in the alerts table.    *)
C20_SentAlertsArePersisted == \A i \in DOMAIN sent : sent[i] \in alerts_table

C22_NoAlertWithoutStore ==
    [][\A s \in Symbols, k \in SettingsKlines : OnCandle(s, k, NoHistory) => alerts' = << >>]_vars

(* C23: a malformed tick is dropped without a trace: the symbol's counter,  *)
(* the cooldown stamps, the pending preliminary and the last processed      *)
(* start are as before, and no alert is emitted.                            *)
C23_MalformedTickIsDropped ==
    [][\A s \in Symbols, k \in {x \in Klines : ~x.numeric}, hist \in Baselines :
            handle_kline_data(s, k, hist) =>
                /\ alerts' = << >>
                /\ UNCHANGED <<consecutive_long_counters, alert_cooldowns, preliminary_signals, processed_candles>>]_vars

(* C24: a settings update whose value for a numeric option does not parse   *)
(* leaves the option at the value it had, in the AlertManager and in its    *)
(* validators.                                                              *)
C24_InvalidValueKeepsLastGood ==
    [][\A u \in {x \in SettingsUpdates : ~x.parses} :
            update_settings(u) => (settings' = settings /\ validators' = validators)]_vars

(* C25: every row of the candle table, whichever writer stored it, has      *)
(* low <= min(open, close) <= max(open, close) <= high and a start on a     *)
(* minute boundary.                                                         *)
C25_StoredRowsAreWellFormed ==
    \A s \in Symbols : \A start \in DOMAIN kline_rows[s] :
        LET row == kline_rows[s][start]
        IN  /\ row.low_price <= Min(row.open_price, row.close_price)
            /\ Max(row.open_price, row.close_price) <= row.high_price
            /\ start % TicksPerMinute = 0

(* C26: a stored row that is closed stays closed for as long as it is in    *)
(* the table: no later upsert of its (symbol, start) makes it not-closed.   *)
C26_ClosedRowStaysClosed ==
    [][\A s \in Symbols : \A start \in (DOMAIN kline_rows[s]) \cap (DOMAIN kline_rows'[s]) :
        kline_rows[s][start].is_closed => kline_rows'[s][start].is_closed]_vars

(* C30: each pass of the retention job leaves, for every symbol of the      *)
(* watchlist, no closed candle older than now - DATA_RETENTION_HOURS.       *)
C30_RetentionJobDeletesOldCandles ==
    [][periodic_cleanup =>
        \A s \in get_watchlist : \A start \in DOMAIN kline_rows'[s] :
            kline_rows'[s][start].is_closed =>
                ~(start < now' * TicksPerMinute - DATA_RETENTION_HOURS * MinutesPerHour * TicksPerMinute)]_vars

C28_ImbalanceHasPositiveHeight ==
    \A r \in {analysis.fair_value_gap, analysis.order_block, analysis.breaker_block, analysis.all_imbalances} :
        r # None => (r[1].top > r[1].bottom /\ r[1].strength.num > 0 /\ r[1].strength.den > 0)

(* C29: two reconciliation runs for the same symbol never interleave: while *)
(* one run still has work ahead for a symbol, no other run has.             *)
C29_OneRunPerSymbol == \A s \in Symbols : Cardinality(runs_at_work(s)) <= 1

(* C40: every well-formed confirmed tick the feed marks as processed is     *)
(* applied to the symbol's consecutive counter by the AlertManager,         *)
(* whatever the TimeManager clock reads against the candle's end.           *)
C40_ProcessedTickReachesCounter ==
    [][(tick'.delivered /\ tick'.kline.numeric /\ Get(processed_candles', tick'.symbol, 0) # Get(processed_candles, tick'.symbol, 0)) =>
        consecutive_long_counters' = update_consecutive_long_counter(consecutive_long_counters, tick'.symbol, tick'.kline)]_vars

(* C39: a settings update that leaves the values of analysis_hours and      *)
(* offset_minutes as they were leaves the consecutive counters, the         *)
(* cooldown stamps and the pending preliminaries unchanged; one that        *)
(* changes either value clears them.                                        *)
C39_CachesClearedIffWindowChanges ==
    [][\A u \in SettingsUpdates : update_settings(u) =>
        IF settings'.analysis_hours = settings.analysis_hours /\ settings'.offset_minutes = settings.offset_minutes
        THEN UNCHANGED <<consecutive_long_counters, alert_cooldowns, preliminary_signals>>
        ELSE consecutive_long_counters' = EmptyDict /\ alert_cooldowns' = EmptyDict /\ preliminary_signals' = EmptyDict]_vars

(* C37 as stated: no Priority alert is emitted for a symbol less than       *)
(* alertGroupingMinutes after the symbol's previous Priority alert,         *)
(* whatever settings updates and cleanup runs lie between them.             *)
C37_PriorityApart ==
    [][\A i \in DOMAIN alerts' :
         (alerts'[i].alert_type = "priority" /\ PriorityKey(alerts'[i].symbol) \in DOMAIN priority_emitted.at)
             => alerts'[i].timestamp - priority_emitted.at[PriorityKey(alerts'[i].symbol)] >= settings'.alert_grouping_minutes]_vars

(* C37 amended: a Priority alert is at least alertGroupingMinutes (the      *)
(* value in force when it is emitted) after the symbol's previous Priority  *)
(* alert, provided the AlertManager still holds a stamp under the symbol's  *)
(* consecutive key, that is, no settings update carrying ANALYSIS_HOURS or  *)
(* OFFSET_MINUTES and no cleanup has dropped it since the last              *)
(* ConsecutiveLong alert.                                                   *)
C37_PriorityApartWhileStamped ==
    [][\A i \in DOMAIN alerts' :
         (/\ alerts'[i].alert_type = "priority"
          /\ PriorityKey(alerts'[i].symbol) \in DOMAIN priority_emitted.at
          /\ ConsecutiveKey(alerts'[i].symbol) \in DOMAIN alert_cooldowns)
             => alerts'[i].timestamp - priority_emitted.at[PriorityKey(alerts'[i].symbol)] >= settings'.alert_grouping_minutes]_vars

(* The consecutive cooldown held back a Priority alert: a Priority was      *)
(* emitted before, the run is long enough and the batch has a volume alert, *)
(* but the held stamp suppressed the ConsecutiveLong and with it the        *)
(* Priority.                                                                *)
C37_Witness ==
    /\ ServedClosedCandle
    /\ settings.consecutive_alerts_enabled /\ settings.priority_alerts_enabled
    /\ PriorityKey(call.symbol) \in DOMAIN priority_emitted.at
    /\ Get(consecutive_long_counters, call.symbol, 0) >= settings.consecutive_long_count
    /\ ConsecutiveKey(call.symbol) \in DOMAIN alert_cooldowns
    /\ Has(alerts, "volume_spike")
    /\ ~Has(alerts, "priority")

(* C33: every reconciliation path works on a window whose start and end are  *)
(* whole minutes (multiples of 60_000 ms): the end is the current time      *)
(* rounded down to the minute less the offset, the start is the end less    *)
(* the analysis period.                                                     *)
C33_WindowIsMinuteAligned ==
    reconcile.op # "none" =>
        /\ reconcile.required_end % TicksPerMinute = 0
        /\ reconcile.required_start % TicksPerMinute = 0

(* C31: the periodic loader asks for a load of a watchlist symbol exactly    *)
(* when fewer than 90% of the one-minute candles of the active window       *)
(* (analysisHours and offsetMinutes back from the clock reading) are        *)
(* stored; a complete window is not loaded again.                           *)
C31_LoadsIffWindowBelowNinetyPercent ==
    [][\A s \in Symbols, h \in AnalysisHours, o \in OffsetMinutes, frac \in Fractions :
         historical_data_loader_checks(s, h, o, frac) =>
             LET window_minutes == h * MinutesPerHour + o
                 stored == Cardinality({c \in kline_data[s] : /\ c >= current_time_ms(frac) - window_minutes * TicksPerMinute
                                                              /\ c < current_time_ms(frac)})
             IN  ("load_historical_data" \in reconcile'.actions) <=> (stored * 100 < LoaderIntegrityPercent * window_minutes)]_vars

(* C32: the time service reports synced = false whenever both sources are   *)
(* stale, a source being stale when it never answered or when its last      *)
(* answer is older than twice its refresh interval; this covers a source    *)
(* that answered once and has failed at every request since.                *)
C32_StaleSourcesReportUnsynced ==
    (/\ sync_task.is_running
     /\ (sync_task.last_sync = 0 \/ now - sync_task.last_sync > 2 * time_server_sync_interval)
     /\ (sync_task.last_exchange_sync = 0 \/ now - sync_task.last_exchange_sync > 2 * exchange_sync_interval))
        => ~is_time_synced

(* C34: after any sequence of settings updates, values that do not parse    *)
(* included, the volume check of a closed candle works with the same        *)
(* minVolumeUsdt and volumeMultiplier as the check of an open candle.       *)
C34_BothVolumeChecksUseSameThresholds ==
    /\ validators.min_volume_usdt = settings.min_volume_usdt
    /\ validators.volume_multiplier = settings.volume_multiplier

(* C36: a curator cycle removes a symbol from the watchlist only when the    *)
(* cycle computed the symbol's price drop and the drop is below             *)
(* priceDropPercentage; a price lookup that fails removes nothing.          *)
C36_RemovedOnlyOnComputedDrop ==
    [][\A all_pairs \in SUBSET Pairs, current_prices \in [Pairs -> CurrentPrices], historical_prices \in [Pairs -> HistoricalPrices] :
         update_watchlist(all_pairs, current_prices, historical_prices) =>
             \A s \in get_watchlist \ {x \in DOMAIN watchlist' : watchlist'[x]} :
                 /\ s \in all_pairs
                 /\ current_prices[s] > 0
                 /\ historical_prices[s] > 0
                 /\ ~meets_criteria(current_prices[s], historical_prices[s], price_filter.price_drop_percentage)]_vars

(* C35: a symbol is never both awaiting the confirmation of its             *)
(* subscription and subscribed: subscription_pending and subscribed_pairs   *)
(* are disjoint in every state of the feed.                                 *)
C35_PendingAndSubscribedDisjoint == subscription_pending \cap subscribed_pairs = {}

(* C38: every symbol of subscribed_pairs or subscription_pending is one of   *)
(* the feed's trading pairs, however the curator, the connection and the    *)
(* watchlist endpoints interleave.                                          *)
C38_SubscriptionsWithinTradingPairs == (subscribed_pairs \cup subscription_pending) \subseteq trading_pairs

====
